---- MODULE Spec2Model ----
(***************************************************************************)
(* Archive ingestion pipeline of the legal-documents RAG service:          *)
(* ArchiveHandler (validation, extraction, cleanup, enumeration),          *)
(* LegalDocumentLoader (load_archive, load_directory, recursive archive    *)
(* processing) and IngestionService.processFile.                           *)
(*                                                                         *)
(* File names and member paths are sequences of one-character strings, so  *)
(* that prefix, suffix and substring tests are computed as the code        *)
(* computes them.                                                          *)
(***************************************************************************)
EXTENDS Integers, Sequences, FiniteSets, TLC

\* ------------------------------------------------------------------------
\* Bounds of the model
\* ------------------------------------------------------------------------
\* members of an archive handed directly to ArchiveHandler.extract
MaxMembers == 2
\* members of an archive processed by a loading job
MaxJobMembers == 4
\* files at the top of documents_dir
MaxDirFiles == 2
\* members of a nested archive
MaxNestedMembers == 1
\* members of an uploaded archive
MaxUploadMembers == 2
\* non-empty chunks of an upload
MaxUploadChunks == 1

\* ------------------------------------------------------------------------
\* Program constants (document_loader.py)
\* ------------------------------------------------------------------------
MAX_ARCHIVE_SIZE_MB == 500
MAX_ARCHIVE_SIZE == MAX_ARCHIVE_SIZE_MB * 1024 * 1024
MAX_FILES_IN_ARCHIVE == 1000
MAX_EXTRACTION_RATIO == 100
MAX_NESTED_DEPTH == 3

\* ------------------------------------------------------------------------
\* Strings
\* ------------------------------------------------------------------------
\* str.lower over the characters that occur in the model
LowerChar(c) ==
    CASE c = "Z" -> "z"
      [] c = "I" -> "i"
      [] c = "P" -> "p"
      [] c = "M" -> "m"
      [] c = "D" -> "d"
      [] OTHER -> c

Lower(s) == [i \in 1..Len(s) |-> LowerChar(s[i])]

\* str.startswith
StartsWith(s, pre) ==
    /\ Len(pre) <= Len(s)
    /\ SubSeq(s, 1, Len(pre)) = pre

\* str.endswith
EndsWith(s, suf) ==
    /\ Len(suf) <= Len(s)
    /\ SubSeq(s, Len(s) - Len(suf) + 1, Len(s)) = suf

\* the "sub in s" substring test
Contains(s, sub) ==
    \E i \in 1..(Len(s) - Len(sub) + 1) : SubSeq(s, i, i + Len(sub) - 1) = sub

\* positions of character c in s
Positions(s, c) == {i \in 1..Len(s) : s[i] = c}

SetMax(S) == CHOOSE x \in S : \A y \in S : y <= x

SetMin(S) == CHOOSE x \in S : \A y \in S : x <= y

\* the components of a relative path, split at "/" (empty components dropped,
\* as pathlib does)
RECURSIVE Segments(_)
Segments(p) ==
    IF p = <<>> THEN <<>>
    ELSE IF Positions(p, "/") = {} THEN <<p>>
    ELSE LET i == SetMin(Positions(p, "/"))
             head == SubSeq(p, 1, i - 1)
             rest == Segments(SubSeq(p, i + 1, Len(p)))
         IN  IF head = <<>> THEN rest ELSE <<head>> \o rest

\* Path.name: the last component
PathName(p) ==
    LET segs == Segments(p) IN IF segs = <<>> THEN <<>> ELSE segs[Len(segs)]

\* Path.suffix: from the last dot of the name, unless that dot is the first
\* or the last character
Suffix(name) ==
    IF Positions(name, ".") = {} THEN <<>>
    ELSE LET i == SetMax(Positions(name, "."))
         IN  IF 1 < i /\ i < Len(name) THEN SubSeq(name, i, Len(name)) ELSE <<>>

\* ------------------------------------------------------------------------
\* Extension tables
\* ------------------------------------------------------------------------
EXT_PDF == <<".", "p", "d", "f">>
EXT_DOCX == <<".", "d", "o", "c", "x">>
EXT_DOC == <<".", "d", "o", "c">>
EXT_TXT == <<".", "t", "x", "t">>
EXT_MD == <<".", "m", "d">>
EXT_ZIP == <<".", "z", "i", "p">>
EXT_TAR == <<".", "t", "a", "r">>
EXT_TGZ == <<".", "t", "g", "z">>
EXT_TBZ2 == <<".", "t", "b", "z", "2">>
EXT_TXZ == <<".", "t", "x", "z">>
EXT_TAR_GZ == <<".", "t", "a", "r", ".", "g", "z">>
EXT_TAR_BZ2 == <<".", "t", "a", "r", ".", "b", "z", "2">>
EXT_TAR_XZ == <<".", "t", "a", "r", ".", "x", "z">>

SUPPORTED_EXTENSIONS == {EXT_PDF, EXT_DOCX, EXT_DOC, EXT_TXT, EXT_MD}

ARCHIVE_EXTENSIONS == {EXT_ZIP, EXT_TAR, EXT_TGZ, EXT_TBZ2, EXT_TXZ}

COMPOUND_ARCHIVE_EXTENSIONS == {EXT_TAR_GZ, EXT_TAR_BZ2, EXT_TAR_XZ}

\* ------------------------------------------------------------------------
\* ArchiveHandler: classification
\* ------------------------------------------------------------------------
SKIP_NAMES ==
    { <<"_", "_", "M", "A", "C", "O", "S", "X">>,
      <<".", "D", "S", "_", "S", "t", "o", "r", "e">>,
      <<"T", "h", "u", "m", "b", "s", ".", "d", "b">>,
      <<"d", "e", "s", "k", "t", "o", "p", ".", "i", "n", "i">>,
      <<".", "g", "i", "t">>,
      <<".", "s", "v", "n">> }

SKIP_PREFIXES == { <<".">>, <<"_", "_">>, <<"~">> }

is_archive(name) ==
    \/ \E ext \in COMPOUND_ARCHIVE_EXTENSIONS : EndsWith(Lower(name), ext)
    \/ Lower(Suffix(name)) \in ARCHIVE_EXTENSIONS

get_archive_type(name) ==
    LET n == Lower(name) IN
    IF EndsWith(n, EXT_TAR_GZ) \/ EndsWith(n, EXT_TGZ) THEN "tar.gz"
    ELSE IF EndsWith(n, EXT_TAR_BZ2) \/ EndsWith(n, EXT_TBZ2) THEN "tar.bz2"
    ELSE IF EndsWith(n, EXT_TAR_XZ) \/ EndsWith(n, EXT_TXZ) THEN "tar.xz"
    ELSE IF EndsWith(n, EXT_TAR) THEN "tar"
    ELSE IF EndsWith(n, EXT_ZIP) THEN "zip"
    ELSE "none"

\* parts: every component of the path of the file, the components of the
\* directory that is enumerated included
should_skip_file(parts) ==
    LET name == parts[Len(parts)] IN
    \/ name \in SKIP_NAMES
    \/ \E p \in SKIP_PREFIXES : StartsWith(name, p)
    \/ \E i \in 1..Len(parts) :
          \/ parts[i] \in SKIP_NAMES
          \/ \E p \in SKIP_PREFIXES : StartsWith(parts[i], p)

\* ------------------------------------------------------------------------
\* ArchiveHandler: validation.  A member is [path, type, size]; type is the
\* tar member type ("reg", "dir", "sym", "lnk", "chr", "blk", "fifo").
\* An archive is [name, size, members, extraDirs, state]: extraDirs counts
\* further empty directory members with safe names, state is "ok" or
\* "corrupt".
\* ------------------------------------------------------------------------
issym(m) == m.type = "sym"

islnk(m) == m.type = "lnk"

isdev(m) == m.type \in {"chr", "blk", "fifo"}

\* validate_path_safety without the test for "..": leading "/" and drive
\* prefix only
validate_path_safety_NoDotDot(member_path) ==
    IF StartsWith(member_path, <<"/">>) THEN "unsafe_path"
    ELSE IF Len(member_path) > 1 /\ member_path[2] = ":"
    THEN "windows_abs_path"
    ELSE "ok"

\* "ok" or the ArchiveError raised
validate_path_safety(member_path) ==
    IF StartsWith(member_path, <<"/">>) \/ Contains(member_path, <<".", ".">>)
    THEN "unsafe_path"
    ELSE IF Len(member_path) > 1 /\ member_path[2] = ":"
    THEN "windows_abs_path"
    ELSE "ok"

RECURSIVE SumSizes(_)
SumSizes(members) ==
    IF members = <<>> THEN 0 ELSE Head(members).size + SumSizes(Tail(members))

\* a member loop that checks no path
ZipMemberCheck_Skip(m) == "ok"

ZipMemberCheck(m) == validate_path_safety(m.path)

\* the loop over the members of _validate_zip: the error of the first member
\* (in archive order) that fails, or "ok"
RECURSIVE ZipMembersCheck(_)
ZipMembersCheck(members) ==
    IF members = <<>> THEN "ok"
    ELSE IF ZipMemberCheck(Head(members)) # "ok" THEN ZipMemberCheck(Head(members))
    ELSE ZipMembersCheck(Tail(members))

\* total / archive_size > limit, the quotient being the exact one
RatioExceeds(total, archive_size, limit) ==
    \/ total \div archive_size > limit
    \/ total \div archive_size = limit /\ total % archive_size > 0

validate_zip(arch) ==
    IF Len(arch.members) + arch.extraDirs > MAX_FILES_IN_ARCHIVE
    THEN "too_many_files"
    ELSE IF arch.size > 0
            /\ RatioExceeds(SumSizes(arch.members), arch.size,
                            MAX_EXTRACTION_RATIO)
    THEN "zip_bomb"
    ELSE ZipMembersCheck(arch.members)

TarMemberCheck(m) ==
    IF validate_path_safety(m.path) # "ok" THEN validate_path_safety(m.path)
    ELSE IF issym(m) \/ islnk(m) THEN "links_forbidden"
    ELSE IF isdev(m) THEN "device_forbidden"
    ELSE "ok"

\* the loop over the members of _validate_tar
RECURSIVE TarMembersCheck(_)
TarMembersCheck(members) ==
    IF members = <<>> THEN "ok"
    ELSE IF TarMemberCheck(Head(members)) # "ok" THEN TarMemberCheck(Head(members))
    ELSE TarMembersCheck(Tail(members))

validate_tar(arch) ==
    IF Len(arch.members) + arch.extraDirs > MAX_FILES_IN_ARCHIVE
    THEN "too_many_files"
    ELSE TarMembersCheck(arch.members)

\* the members the fallback extraction (Python without extraction filters)
\* hands to extractall
get_safe_tar_members(members) ==
    SelectSeq(members,
              LAMBDA m : validate_path_safety(m.path) = "ok"
                         /\ ~(issym(m) \/ islnk(m) \/ isdev(m)))

\* ------------------------------------------------------------------------
\* Names used by the inputs
\* ------------------------------------------------------------------------
N_a_txt == <<"a", ".", "t", "x", "t">>
N_b_pdf == <<"b", ".", "p", "d", "f">>
N_c_txt == <<"c", ".", "t", "x", "t">>
N_e_md == <<"e", ".", "m", "d">>
N_x_bin == <<"x", ".", "b", "i", "n">>
N_ds_store == <<".", "D", "S", "_", "S", "t", "o", "r", "e">>
N_n_zip == <<"n", ".", "z", "i", "p">>
N_m_tar == <<"m", ".", "t", "a", "r">>
N_t_zip == <<"t", ".", "z", "i", "p">>
N_t_tar == <<"t", ".", "t", "a", "r">>
N_t_tgz == <<"t", ".", "t", "g", "z">>
N_T_ZIP == <<"T", ".", "Z", "I", "P">>
N_evil_zip == <<"e", "v", "i", "l", ".", "z", "i", "p">>
P_up_evil_txt == <<".", ".", "/", "e", "v", "i", "l", ".", "t", "x", "t">>
P_abs_e_md == <<"/", "e", ".", "m", "d">>
P_drive_e_md == <<"c", ":", "e", ".", "m", "d">>
P_mid_up == <<"d", "/", ".", ".", "/", "e", ".", "m", "d">>
P_a_dotdot_md == <<"a", ".", ".", "m", "d">>
P_macosx_a_txt == <<"_", "_", "M", "A", "C", "O", "S", "X", "/", "a", ".", "t", "x", "t">>
P_big_md == <<"b", "i", "g", ".", "m", "d">>
P_link == <<"l">>
P_hard == <<"h">>
P_chr == <<"v">>
P_fifo == <<"f">>
P_dir == <<"d">>

\* the directory extraction workspaces are created in, and the fixed prefix
\* of their names
TmpRoot == << <<"/">>, <<"t", "m", "p">> >>

TmpDirName == <<"l", "e", "g", "a", "l", "_", "d", "o", "c", "s", "_">>

\* documents_dir
DocsRoot == << <<"/">>, <<"d", "o", "c", "s">> >>

\* ------------------------------------------------------------------------
\* Inputs.  A member carries, besides what the archive declares, what the
\* document parsers make of its content: docling is the outcome of the
\* Docling parse ("docs", "none", "raise"), loader the outcome of the
\* LOADERS parser.
\* ------------------------------------------------------------------------
Mem(path, type, size, docling, loader) ==
    [path |-> path, type |-> type, size |-> size,
     docling |-> docling, loader |-> loader]

Reg(path, size) == Mem(path, "reg", size, "raise", "docs")

\* members of the archives handed to ArchiveHandler.extract
DirectMembers ==
    << Reg(N_a_txt, 1),
       Reg(P_big_md, 100),
       Reg(P_up_evil_txt, 1),
       Reg(P_abs_e_md, 1),
       Reg(P_drive_e_md, 1),
       Reg(P_mid_up, 1),
       Reg(P_a_dotdot_md, 1),
       Mem(P_dir, "dir", 0, "raise", "raise"),
       Mem(P_link, "sym", 0, "raise", "raise"),
       Mem(P_hard, "lnk", 0, "raise", "raise"),
       Mem(P_chr, "chr", 0, "raise", "raise"),
       Mem(P_fifo, "fifo", 0, "raise", "raise") >>

\* members of the archives handed to load_archive
JobMembers ==
    << Reg(N_a_txt, 1),
       Mem(N_b_pdf, "reg", 1, "docs", "docs"),
       Mem(N_c_txt, "reg", 1, "raise", "raise"),
       Reg(N_x_bin, 1),
       Reg(P_macosx_a_txt, 1),
       Reg(N_n_zip, 1),
       Reg(N_m_tar, 3),
       Reg(P_up_evil_txt, 1) >>

\* members of the archives found inside an archive
NestedMembers ==
    << Reg(N_a_txt, 1),
       Mem(N_e_md, "reg", 1, "raise", "none"),
       Reg(N_n_zip, 1),
       Reg(P_up_evil_txt, 1) >>

\* the sequences of at most n distinct entries of universe, in the order of
\* universe
RECURSIVE SubLists(_, _)
SubLists(universe, n) ==
    IF universe = <<>> \/ n = 0 THEN {<<>>}
    ELSE SubLists(Tail(universe), n)
         \cup {<<Head(universe)>> \o l : l \in SubLists(Tail(universe), n - 1)}

\* the sequences of at most n distinct entries of universe, in every order
RECURSIVE Arrangements(_, _)
Arrangements(universe, n) ==
    IF n = 0 THEN {<<>>}
    ELSE LET shorter == Arrangements(universe, n - 1) IN
         shorter \cup
         {Append(l, universe[i]) :
             l \in {x \in shorter : Len(x) = n - 1},
             i \in 1..Len(universe)}

Distinct(l) == \A i, j \in 1..Len(l) : i # j => l[i] # l[j]

IsTarName(name) == get_archive_type(name) \in {"tar", "tar.gz", "tar.bz2", "tar.xz"}

Archive(name, size, members, extraDirs, state) ==
    [name |-> name, size |-> size, members |-> members,
     extraDirs |-> extraDirs, state |-> state]

\* zipfile reports files and directories only; an uncompressed tar is at
\* least as large as the files it holds
FitsFormat(name, size, members) ==
    /\ IsTarName(name)
       \/ \A i \in 1..Len(members) : members[i].type \in {"reg", "dir"}
    /\ get_archive_type(name) = "tar" => SumSizes(members) <= size

\* the archives handed directly to ArchiveHandler.extract; a corrupt archive
\* has no readable member list
DirectArchives ==
    { a \in { Archive(name, size, members, extraDirs, "ok") :
                name \in {N_t_zip, N_T_ZIP, N_t_tar, N_t_tgz, N_x_bin},
                size \in {1, 2, MAX_ARCHIVE_SIZE, MAX_ARCHIVE_SIZE + 1},
                members \in {l \in Arrangements(DirectMembers, MaxMembers) :
                                Distinct(l)},
                extraDirs \in {0, MAX_FILES_IN_ARCHIVE} } :
        FitsFormat(a.name, a.size, a.members) }
    \cup { Archive(name, 1, <<>>, 0, "corrupt") : name \in {N_t_zip, N_t_tar} }

\* the archives handed to load_archive; "missing" is a path that does not exist
JobArchives ==
    { Archive(name, 1, members, 0, "ok") :
        name \in {N_t_zip},
        members \in SubLists(JobMembers, MaxJobMembers) }
    \cup { Archive(N_t_zip, 1, <<>>, 0, "corrupt"),
           Archive(N_t_zip, 1, <<>>, 0, "missing"),
           Archive(N_a_txt, 1, <<>>, 0, "ok") }

\* what a nested archive found in a workspace may hold
NestedArchives(name, size) ==
    { Archive(name, size, members, 0, "ok") :
        members \in {l \in SubLists(NestedMembers, MaxNestedMembers) :
                        FitsFormat(name, size, l)} }
    \cup { Archive(name, size, <<>>, 0, "corrupt") }

NoArchive == Archive(<<>>, 0, <<>>, 0, "none")

\* a file of documents_dir: the file, and what it holds when it is an archive
DirEntry(file, arch) == [file |-> file, arch |-> arch]

DirEntries ==
    << DirEntry(Reg(N_a_txt, 1), NoArchive),
       DirEntry(Mem(N_c_txt, "reg", 1, "raise", "raise"), NoArchive),
       DirEntry(Reg(N_x_bin, 1), NoArchive),
       DirEntry(Reg(N_ds_store, 1), NoArchive),
       DirEntry(Reg(N_evil_zip, 1),
                Archive(N_evil_zip, 1, <<Reg(P_up_evil_txt, 1)>>, 0, "ok")),
       DirEntry(Reg(N_t_zip, 1),
                Archive(N_t_zip, 1, <<Reg(N_a_txt, 1), Reg(N_n_zip, 1)>>, 0, "ok")),
       DirEntry(Reg(N_t_tar, 1), Archive(N_t_tar, 1, <<>>, 0, "corrupt")) >>

Directories ==
    {l \in Arrangements(DirEntries, MaxDirFiles) : Distinct(l)}

\* members of the archives uploaded to processFile
UploadMembers ==
    << Reg(N_a_txt, 1),
       Mem(N_c_txt, "reg", 1, "raise", "raise"),
       Reg(N_n_zip, 1),
       Reg(P_up_evil_txt, 1) >>

\* an upload: the UploadFile (its filename, the number of non-empty chunks
\* its read() delivers), what the parsers make of it when it is a document,
\* what it holds when it is an archive, and whether the service has an agent
Upload(filename, chunks, file, arch, agent) ==
    [filename |-> filename, chunks |-> chunks, file |-> file, arch |-> arch,
     agent |-> agent]

N_dot_zip == <<".", "z", "i", "p">>

N_unknown == <<"u", "n", "k", "n", "o", "w", "n">>

Uploads ==
    { Upload(f.path, chunks, f, NoArchive, agent) :
        f \in { Reg(N_a_txt, 1), Mem(N_c_txt, "reg", 1, "raise", "raise"),
                Mem(N_e_md, "reg", 1, "raise", "none"),
                Mem(N_b_pdf, "reg", 1, "docs", "docs"),
                Reg(N_x_bin, 1), Reg(<<>>, 1),
                Reg(P_up_evil_txt, 1), Reg(P_abs_e_md, 1) },
        chunks \in 0..MaxUploadChunks,
        agent \in BOOLEAN }
    \cup
    { Upload(name, chunks, Reg(name, 1), Archive(name, 1, members, 0, "ok"),
             agent) :
        name \in {N_t_zip, N_T_ZIP, N_dot_zip},
        chunks \in 1..MaxUploadChunks,
        members \in SubLists(UploadMembers, MaxUploadMembers),
        agent \in BOOLEAN }
    \cup
    { Upload(N_t_zip, chunks, Reg(N_t_zip, 1),
             Archive(N_t_zip, 1, <<>>, 0, "corrupt"), TRUE) :
        chunks \in 0..MaxUploadChunks }

\* the directories that are enumerated: a workspace below the default
\* temporary directory, documents_dir, a workspace below a TMPDIR with a
\* hidden component (/h/.c) and the relative documents_dir ../docs
EnumerationRoots ==
    { TmpRoot \o <<TmpDirName>>,
      DocsRoot,
      << <<"/">>, <<"h">>, <<".", "c">>, TmpDirName >>,
      << <<".", ".">>, <<"d", "o", "c", "s">> >> }

\* the files below an enumerated directory
EnumerationFiles ==
    << Reg(N_a_txt, 1), Reg(N_ds_store, 1), Reg(P_macosx_a_txt, 1),
       Reg(<<"d", "/">> \o N_a_txt, 1) >>

\* the calls of ArchiveHandler.iter_files
Enumerations ==
    { [root |-> r, files |-> f] :
        r \in EnumerationRoots, f \in Arrangements(EnumerationFiles, 2) }

\* ------------------------------------------------------------------------
\* State
\* ------------------------------------------------------------------------
VARIABLES
    entry,        \* the operation that was called
    maxDepth,     \* the value of MAX_NESTED_DEPTH of the deployment
    input,        \* the argument of the operation
    pc,           \* position of the called operation
    stack,        \* active calls of _process_archive_recursive / extract
    workspaces,   \* the temporary directories that exist
    mkdtemps,     \* number of tempfile.mkdtemp calls so far
    stats,        \* the ArchiveProcessingStats of the running job
    documents,    \* the documents yielded so far
    queue,        \* load_directory: regular_files and archive_files to go
    raised,       \* the exception that reached the caller
    returned,     \* the value returned to the caller
    ingest,       \* the locals of IngestionService.processFile
    lastExtract,  \* history: the last call of ArchiveHandler.extract
    enumerated,   \* history: files / archives enumerated by the running job
    locals        \* the locals of the running search, query or provider call

vars == <<entry, maxDepth, input, pc, stack, workspaces, mkdtemps, stats,
          documents, queue, raised, returned, ingest, lastExtract, enumerated,
          locals>>

NoDir == 0

NoException == [type |-> "none", kind |-> "none"]

Exception(type, kind) == [type |-> type, kind |-> kind]

\* ArchiveProcessingStats()
ArchiveProcessingStats ==
    [files_processed |-> 0, files_skipped |-> 0, files_failed |-> 0,
     nested_archives |-> 0, errors |-> <<>>]

NoEnumerated == [files |-> 0, archives |-> 0]

\* IngestionResult; file_type "none" stands for no result
IngestionResult(chunks_count, files_processed, file_type, processed_files, errors) ==
    [chunks_count |-> chunks_count, files_processed |-> files_processed,
     file_type |-> file_type, processed_files |-> processed_files,
     errors |-> errors]

NoResult == IngestionResult(0, 0, "none", <<>>, <<>>)

\* the locals of processFile before the call
NoIngest ==
    [temp_dir |-> "none", temp_path |-> <<>>, file |-> "none", reads |-> 0,
     loader_calls |-> 0, chunks |-> 0, i |-> 0, issued |-> <<>>,
     batches |-> <<>>, pending |-> NoException, result |-> NoResult]

\* no search, query or provider call is running
NoLocals == [op |-> "none"]

NoExtract == [arch |-> NoArchive, dir |-> NoDir, outcome |-> NoException,
              unpacked |-> FALSE, finished |-> FALSE]

Frame(kind, arch, chain, depth) ==
    [kind |-> kind, arch |-> arch, archive_chain |-> chain,
     current_chain |-> <<>>, depth |-> depth, xdir |-> NoDir,
     temp_dir |-> NoDir, files |-> <<>>, pc |-> IF kind = "direct"
                                                  THEN "extract" ELSE "enter"]

Top == stack[Len(stack)]

Pop == SubSeq(stack, 1, Len(stack) - 1)

SetTop(f) == [stack EXCEPT ![Len(stack)] = f]

Init ==
    /\ entry \in {"extract", "load_archive", "load_directory", "processFile",
                  "iter_files"}
    /\ maxDepth \in 1..MAX_NESTED_DEPTH
    /\ input \in CASE entry = "extract" -> DirectArchives
                   [] entry = "load_archive" -> JobArchives
                   [] entry = "load_directory" -> Directories
                   [] entry = "processFile" -> Uploads
                   [] entry = "iter_files" -> Enumerations
    /\ entry \in {"extract", "iter_files"} => maxDepth = MAX_NESTED_DEPTH
    /\ pc = "start"
    /\ stack = <<>>
    /\ workspaces = {}
    /\ mkdtemps = 0
    /\ stats = ArchiveProcessingStats
    /\ documents = <<>>
    /\ queue = [regular_files |-> <<>>, archive_files |-> <<>>]
    /\ raised = NoException
    /\ returned = "nothing"
    /\ ingest = NoIngest
    /\ lastExtract = NoExtract
    /\ enumerated = NoEnumerated
    /\ locals = NoLocals

\* ------------------------------------------------------------------------
\* LegalDocumentLoader: loading one document
\* ------------------------------------------------------------------------
\* " -> ".join(chain)
RECURSIVE JoinArrow(_)
JoinArrow(chain) ==
    IF chain = <<>> THEN <<>>
    ELSE IF Len(chain) = 1 THEN chain[1]
    ELSE chain[1] \o <<" ", "->", " ">> \o JoinArrow(Tail(chain))

\* the metadata _enrich_metadata leaves on each of n documents; an absent
\* archive_source key is the empty sequence
enrich_metadata(n, name, suffix, archive_chain) ==
    [i \in 1..n |->
        [filename |-> name,
         file_type |-> suffix,
         archive_source |-> IF archive_chain # <<>>
                            THEN JoinArrow(archive_chain) ELSE <<>>]]

\* [exc, docs]: exc when the parser's exception leaves _load_single_file.
\* Docling splits a document into chunks (two here), the LOADERS parsers
\* return one document.
load_single_file(file, archive_chain) ==
    LET name == PathName(file.path)
        suffix == Lower(Suffix(name))
    IN  IF suffix \notin SUPPORTED_EXTENSIONS
        THEN [exc |-> FALSE, docs |-> <<>>]
        ELSE IF suffix \in {EXT_PDF, EXT_DOCX, EXT_DOC} /\ file.docling = "docs"
        THEN [exc |-> FALSE,
              docs |-> enrich_metadata(2, name, suffix, archive_chain)]
        ELSE IF file.loader = "raise"
        THEN [exc |-> TRUE, docs |-> <<>>]
        ELSE [exc |-> FALSE,
              docs |-> enrich_metadata(IF file.loader = "docs" THEN 1 ELSE 0,
                                       name, suffix, archive_chain)]

\* history: the archives that really contain the file being processed,
\* outermost first, read off the active calls
Containers == [i \in 1..Len(stack) |-> stack[i].arch.name]

Yielded(docs) == [i \in 1..Len(docs) |->
                    [filename |-> docs[i].filename,
                     file_type |-> docs[i].file_type,
                     archive_source |-> docs[i].archive_source,
                     containers |-> Containers]]

\* ------------------------------------------------------------------------
\* ArchiveHandler.extract, cleanup, iter_files
\* ------------------------------------------------------------------------
\* what an archive found in a workspace holds is read when it is opened
Contents(frame) ==
    IF frame.arch.state = "unread"
    THEN NestedArchives(frame.arch.name, frame.arch.size)
    ELSE {frame.arch}

\* a cleanup that removes nothing
cleanup_Noop(dirs, path) == dirs

\* ArchiveHandler.cleanup
cleanup(dirs, path) == IF path # NoDir /\ path \in dirs THEN dirs \ {path} ELSE dirs

\* the regular files extractall leaves in the workspace, in member order
ExtractedFiles(members) == SelectSeq(members, LAMBDA m : m.type = "reg")

\* ArchiveHandler.iter_files over the workspace temp_dir
iter_files(root, files) ==
    SelectSeq(files, LAMBDA m : ~should_skip_file(root \o Segments(m.path)))

WorkspaceParts == TmpRoot \o <<TmpDirName>>

\* the error _process_archive_recursive records for an exception of its try block
ArchiveFailure(frame, exc) ==
    [kind |-> IF exc.type = "ArchiveError" THEN "archive" ELSE "unexpected",
     name |-> frame.arch.name,
     detail |-> exc.kind,
     chain |-> frame.current_chain]

\* extract raises exc: to the caller of a direct call, or into the except
\* clauses of _process_archive_recursive
RaiseFromExtract(arch, exc) ==
    IF Top.kind = "direct"
    THEN /\ stack' = Pop
         /\ raised' = exc
         /\ pc' = "done"
         /\ stats' = stats
    ELSE /\ stack' = SetTop([Top EXCEPT !.arch = arch, !.xdir = NoDir,
                                        !.pc = "finally"])
         /\ stats' = [stats EXCEPT
                        !.errors = Append(@, ArchiveFailure(Top, exc))]
         /\ UNCHANGED <<raised, pc>>

\* the archive of the call is the upload of processFile, and the finally
\* clause of processFile has removed it
UploadGone(frame) ==
    /\ entry = "processFile"
    /\ frame.depth = 0
    /\ ingest.file = "removed"

\* extract up to and including tempfile.mkdtemp; archive_path.stat() raises
\* FileNotFoundError for an archive that is gone
ExtractBegin ==
    /\ stack # <<>>
    /\ Top.pc = "extract"
    /\ IF UploadGone(Top)
       THEN /\ RaiseFromExtract(Top.arch,
                                Exception("FileNotFoundError", "stat"))
            /\ lastExtract' = [arch |-> Top.arch, dir |-> NoDir,
                               outcome |-> Exception("FileNotFoundError",
                                                     "stat"),
                               unpacked |-> FALSE, finished |-> TRUE]
            /\ UNCHANGED <<workspaces, mkdtemps>>
       ELSE IF Top.arch.size > MAX_ARCHIVE_SIZE
       THEN /\ RaiseFromExtract(Top.arch, Exception("ArchiveError", "too_large"))
            /\ lastExtract' = [arch |-> Top.arch, dir |-> NoDir,
                               outcome |-> Exception("ArchiveError", "too_large"),
                               unpacked |-> FALSE, finished |-> TRUE]
            /\ UNCHANGED <<workspaces, mkdtemps>>
       ELSE IF get_archive_type(Top.arch.name) = "none"
       THEN /\ RaiseFromExtract(Top.arch,
                                Exception("ArchiveError", "unsupported_format"))
            /\ lastExtract' = [arch |-> Top.arch, dir |-> NoDir,
                               outcome |-> Exception("ArchiveError",
                                                     "unsupported_format"),
                               unpacked |-> FALSE, finished |-> TRUE]
            /\ UNCHANGED <<workspaces, mkdtemps>>
       ELSE /\ mkdtemps' = mkdtemps + 1
            /\ workspaces' = workspaces \cup {mkdtemps + 1}
            /\ stack' = SetTop([Top EXCEPT !.xdir = mkdtemps + 1,
                                           !.pc = "unpack"])
            /\ lastExtract' = [arch |-> Top.arch, dir |-> mkdtemps + 1,
                               outcome |-> NoException, unpacked |-> FALSE,
                               finished |-> FALSE]
            /\ UNCHANGED <<raised, pc, stats>>
    /\ UNCHANGED <<locals, ingest, entry, maxDepth, input, documents, queue, returned,
                   enumerated>>

\* the exception of the try block of extract, "ok" validation included
ExtractOutcome(arch, io) ==
    LET verdict == IF get_archive_type(arch.name) = "zip"
                   THEN validate_zip(arch) ELSE validate_tar(arch)
    IN  IF arch.state = "corrupt" THEN Exception("ArchiveError", "corrupt")
        ELSE IF verdict # "ok" THEN Exception("ArchiveError", verdict)
        ELSE IF io # "ok" THEN Exception("OSError", io)
        ELSE NoException

\* whether extractall was reached
Unpacks(arch) ==
    /\ arch.state = "ok"
    /\ (IF get_archive_type(arch.name) = "zip"
        THEN validate_zip(arch) ELSE validate_tar(arch)) = "ok"

\* extract from opening the archive to its return or its raise
ExtractRun ==
    /\ stack # <<>>
    /\ Top.pc = "unpack"
    /\ \E arch \in Contents(Top), io \in {"ok", "io_error"}, legacy \in BOOLEAN :
         LET exc == ExtractOutcome(arch, io)
             written == IF legacy /\ IsTarName(arch.name)
                        THEN get_safe_tar_members(arch.members)
                        ELSE arch.members
             files == iter_files(WorkspaceParts, ExtractedFiles(written))
         IN  /\ lastExtract' = [arch |-> arch, dir |-> Top.xdir,
                                outcome |-> exc, unpacked |-> Unpacks(arch),
                                finished |-> TRUE]
             /\ IF exc # NoException
                THEN /\ workspaces' = cleanup(workspaces, Top.xdir)
                     /\ RaiseFromExtract(arch, exc)
                     /\ UNCHANGED <<returned, enumerated>>
                ELSE IF Top.kind = "direct"
                THEN /\ stack' = Pop
                     /\ returned' = "temp_dir"
                     /\ pc' = "done"
                     /\ UNCHANGED <<workspaces, raised, stats, enumerated>>
                ELSE /\ stack' = SetTop([Top EXCEPT !.arch = arch,
                                                    !.temp_dir = Top.xdir,
                                                    !.files = files,
                                                    !.pc = "loop"])
                     /\ enumerated' =
                          [files |-> enumerated.files + Cardinality(
                              {i \in 1..Len(files) :
                                  ~is_archive(PathName(files[i].path))}),
                           archives |-> enumerated.archives + Cardinality(
                              {i \in 1..Len(files) :
                                  is_archive(PathName(files[i].path))})]
                     /\ UNCHANGED <<workspaces, raised, returned, pc, stats>>
    /\ UNCHANGED <<locals, ingest, entry, maxDepth, input, mkdtemps, documents, queue>>

\* ------------------------------------------------------------------------
\* LegalDocumentLoader._process_archive_recursive
\* ------------------------------------------------------------------------
\* the chain with the new name put in front
CurrentChain_Reversed(archive_chain, name) == <<name>> \o archive_chain

\* current_chain = (archive_chain or []) + [archive_path.name]
CurrentChain(archive_chain, name) == archive_chain \o <<name>>

\* a depth check that lets one more level through
DepthExceeded_OneMore(depth, limit) == depth > limit

\* the depth check at the entry of the generator
DepthExceeded(depth, limit) == depth >= limit

\* entry of the generator: current_chain and the depth check
EnterArchive ==
    /\ stack # <<>>
    /\ Top.pc = "enter"
    /\ LET current_chain == CurrentChain(Top.archive_chain, Top.arch.name) IN
       IF DepthExceeded(Top.depth, maxDepth)
       THEN /\ stats' = [stats EXCEPT !.errors =
                           Append(@, [kind |-> "depth", name |-> Top.arch.name,
                                      detail |-> "max_nested_depth",
                                      chain |-> current_chain])]
            /\ stack' = Pop
       ELSE /\ stack' = SetTop([Top EXCEPT !.current_chain = current_chain,
                                           !.pc = "extract"])
            /\ stats' = stats
    /\ UNCHANGED <<locals, ingest, entry, maxDepth, input, pc, workspaces, mkdtemps, documents,
                   queue, raised, returned, lastExtract, enumerated>>

\* loop body, file is a nested archive: count it and recurse
ProcessNestedArchive ==
    /\ stack # <<>>
    /\ Top.pc = "loop"
    /\ Top.files # <<>>
    /\ LET file == Head(Top.files) IN
       /\ is_archive(PathName(file.path))
       /\ stats' = [stats EXCEPT !.nested_archives = @ + 1]
       /\ stack' = Append(SetTop([Top EXCEPT !.files = Tail(@)]),
                          Frame("proc",
                                Archive(PathName(file.path), file.size, <<>>, 0,
                                        "unread"),
                                Top.current_chain, Top.depth + 1))
    /\ UNCHANGED <<locals, ingest, entry, maxDepth, input, pc, workspaces, mkdtemps, documents,
                   queue, raised, returned, lastExtract, enumerated>>

\* loop body, file with an unsupported extension
SkipUnsupportedFile ==
    /\ stack # <<>>
    /\ Top.pc = "loop"
    /\ Top.files # <<>>
    /\ LET file == Head(Top.files) IN
       /\ ~is_archive(PathName(file.path))
       /\ Lower(Suffix(PathName(file.path))) \notin SUPPORTED_EXTENSIONS
       /\ stats' = [stats EXCEPT !.files_skipped = @ + 1]
       /\ stack' = SetTop([Top EXCEPT !.files = Tail(@)])
    /\ UNCHANGED <<locals, ingest, entry, maxDepth, input, pc, workspaces, mkdtemps, documents,
                   queue, raised, returned, lastExtract, enumerated>>

\* counters that let a parser exception pass uncounted
CountLoaded_Dropped(st, file, loaded) ==
    IF loaded.exc THEN st
    ELSE IF loaded.docs # <<>>
    THEN [st EXCEPT !.files_processed = @ + 1]
    ELSE [st EXCEPT !.files_skipped = @ + 1]

\* the counters and the error list after _load_single_file returned loaded
CountLoaded(st, file, loaded) ==
    IF loaded.exc
    THEN [st EXCEPT !.files_failed = @ + 1,
                    !.errors = Append(@, [kind |-> "file",
                                          name |-> PathName(file.path),
                                          detail |-> "load",
                                          chain |-> Top.current_chain])]
    ELSE IF loaded.docs # <<>>
    THEN [st EXCEPT !.files_processed = @ + 1]
    ELSE [st EXCEPT !.files_skipped = @ + 1]

\* loop body, supported document: load it and count the outcome
LoadArchiveFile ==
    /\ stack # <<>>
    /\ Top.pc = "loop"
    /\ Top.files # <<>>
    /\ LET file == Head(Top.files)
           loaded == load_single_file(file, Top.current_chain)
       IN  /\ ~is_archive(PathName(file.path))
           /\ Lower(Suffix(PathName(file.path))) \in SUPPORTED_EXTENSIONS
           /\ stats' = CountLoaded(stats, file, loaded)
           /\ documents' = documents \o Yielded(loaded.docs)
           /\ stack' = SetTop([Top EXCEPT !.files = Tail(@)])
    /\ UNCHANGED <<locals, ingest, entry, maxDepth, input, pc, workspaces, mkdtemps, queue,
                   raised, returned, lastExtract, enumerated>>

\* the loop is exhausted
FilesExhausted ==
    /\ stack # <<>>
    /\ Top.pc = "loop"
    /\ Top.files = <<>>
    /\ stack' = SetTop([Top EXCEPT !.pc = "finally"])
    /\ UNCHANGED <<locals, ingest, entry, maxDepth, input, pc, workspaces, mkdtemps, stats,
                   documents, queue, raised, returned, lastExtract, enumerated>>

\* the finally clause, and the return to the caller
FinallyCleanup ==
    /\ stack # <<>>
    /\ Top.pc = "finally"
    /\ workspaces' = IF Top.temp_dir # NoDir
                     THEN cleanup(workspaces, Top.temp_dir) ELSE workspaces
    /\ stack' = Pop
    /\ UNCHANGED <<locals, ingest, entry, maxDepth, input, pc, mkdtemps, stats, documents,
                   queue, raised, returned, lastExtract, enumerated>>

\* ------------------------------------------------------------------------
\* The called operations
\* ------------------------------------------------------------------------
\* a direct call of ArchiveHandler.extract(archive_path)
CallExtract ==
    /\ entry = "extract"
    /\ pc = "start"
    /\ stack' = <<Frame("direct", input, <<>>, 0)>>
    /\ pc' = "running"
    /\ UNCHANGED <<locals, ingest, entry, maxDepth, input, workspaces, mkdtemps, stats,
                   documents, queue, raised, returned, lastExtract, enumerated>>

\* load_archive up to the loop over _process_archive_recursive
LoadArchiveStart ==
    /\ entry = "load_archive"
    /\ pc = "start"
    /\ IF input.state = "missing"
       THEN /\ raised' = Exception("FileNotFoundError", "archive_not_found")
            /\ pc' = "done"
            /\ UNCHANGED <<stack, stats, enumerated>>
       ELSE IF ~is_archive(input.name)
       THEN /\ raised' = Exception("ValueError", "unsupported_format")
            /\ pc' = "done"
            /\ UNCHANGED <<stack, stats, enumerated>>
       ELSE /\ stats' = ArchiveProcessingStats
            /\ enumerated' = NoEnumerated
            /\ stack' = <<Frame("proc", input, <<>>, 0)>>
            /\ pc' = "running"
            /\ raised' = raised
    /\ UNCHANGED <<locals, ingest, entry, maxDepth, input, workspaces, mkdtemps, documents,
                   queue, returned, lastExtract>>

\* load_archive returns (documents, stats)
LoadArchiveReturn ==
    /\ entry = "load_archive"
    /\ pc = "running"
    /\ stack = <<>>
    /\ pc' = "done"
    /\ returned' = "documents_stats"
    /\ UNCHANGED <<locals, ingest, entry, maxDepth, input, stack, workspaces, mkdtemps, stats,
                   documents, queue, raised, lastExtract, enumerated>>

\* load_directory: the scan of documents_dir
LoadDirectoryScan ==
    /\ entry = "load_directory"
    /\ pc = "start"
    /\ LET seen == SelectSeq(input, LAMBDA e :
                      ~should_skip_file(DocsRoot \o Segments(e.file.path)))
       IN  queue' = [regular_files |->
                        SelectSeq(seen, LAMBDA e :
                            /\ ~is_archive(PathName(e.file.path))
                            /\ Lower(Suffix(PathName(e.file.path)))
                                  \in SUPPORTED_EXTENSIONS),
                     archive_files |->
                        SelectSeq(seen, LAMBDA e :
                            is_archive(PathName(e.file.path)))]
    /\ pc' = "regular"
    /\ UNCHANGED <<locals, ingest, entry, maxDepth, input, stack, workspaces, mkdtemps, stats,
                   documents, raised, returned, lastExtract, enumerated>>

\* load_directory: one regular document; a parser exception is logged
LoadDirectoryRegular ==
    /\ entry = "load_directory"
    /\ pc = "regular"
    /\ queue.regular_files # <<>>
    /\ LET loaded == load_single_file(Head(queue.regular_files).file, <<>>) IN
       documents' = documents \o Yielded(loaded.docs)
    /\ queue' = [queue EXCEPT !.regular_files = Tail(@)]
    /\ UNCHANGED <<locals, ingest, entry, maxDepth, input, pc, stack, workspaces, mkdtemps,
                   stats, raised, returned, lastExtract, enumerated>>

\* load_directory: _load_archive of the next archive
LoadDirectoryArchive ==
    /\ entry = "load_directory"
    /\ pc \in {"regular", "archives"}
    /\ queue.regular_files = <<>>
    /\ queue.archive_files # <<>>
    /\ stack = <<>>
    /\ stats' = ArchiveProcessingStats
    /\ enumerated' = NoEnumerated
    /\ stack' = <<Frame("proc", Head(queue.archive_files).arch, <<>>, 0)>>
    /\ queue' = [queue EXCEPT !.archive_files = Tail(@)]
    /\ pc' = "archives"
    /\ UNCHANGED <<locals, ingest, entry, maxDepth, input, workspaces, mkdtemps, documents,
                   raised, returned, lastExtract>>

\* load_directory: the generator is exhausted
LoadDirectoryReturn ==
    /\ entry = "load_directory"
    /\ pc \in {"regular", "archives"}
    /\ queue.regular_files = <<>>
    /\ queue.archive_files = <<>>
    /\ stack = <<>>
    /\ pc' = "done"
    /\ returned' = "exhausted"
    /\ UNCHANGED <<locals, ingest, entry, maxDepth, input, stack, workspaces, mkdtemps, stats,
                   documents, queue, raised, lastExtract, enumerated>>

\* ------------------------------------------------------------------------
\* IngestionService
\* ------------------------------------------------------------------------
BATCH_SIZE == 50

\* the directory tempfile.mkdtemp(prefix="legal_upload_") returns
UploadDir == <<"/", "t", "m", "p", "/", "u", "p">>

\* os.path.join(a, b)
os_path_join(a, b) ==
    IF StartsWith(b, <<"/">>) THEN b
    ELSE IF a = <<>> \/ a[Len(a)] = "/" THEN a \o b
    ELSE a \o <<"/">> \o b

\* a type test that takes every other name for a document
get_file_type_Lenient(filename) ==
    LET filename_lower == Lower(filename) IN
    IF \E ext \in COMPOUND_ARCHIVE_EXTENSIONS \cup ARCHIVE_EXTENSIONS :
          EndsWith(filename_lower, ext)
    THEN "archive"
    ELSE "document"

get_file_type(filename) ==
    LET filename_lower == Lower(filename) IN
    IF \E ext \in COMPOUND_ARCHIVE_EXTENSIONS : EndsWith(filename_lower, ext)
    THEN "archive"
    ELSE IF \E ext \in ARCHIVE_EXTENSIONS : EndsWith(filename_lower, ext)
    THEN "archive"
    ELSE IF \E ext \in SUPPORTED_EXTENSIONS : EndsWith(filename_lower, ext)
    THEN "document"
    ELSE "unknown"

\* file.filename or "unknown"
UploadName == IF input.filename = <<>> THEN N_unknown ELSE input.filename

\* text_splitter.split_documents: the number of chunks of n documents
ChunkCounts(n) == {n * per : per \in {0, 1, BATCH_SIZE, BATCH_SIZE + 1}}

\* processFile up to tempfile.mkdtemp
ProcessFileStart ==
    /\ entry = "processFile"
    /\ pc = "start"
    /\ IF ~input.agent
       THEN /\ raised' = Exception("RuntimeError", "agent_not_initialized")
            /\ pc' = "done"
            /\ UNCHANGED <<mkdtemps, ingest>>
       ELSE IF get_file_type(UploadName) = "unknown"
       THEN /\ raised' = Exception("ValueError", "unsupported_format")
            /\ pc' = "done"
            /\ UNCHANGED <<mkdtemps, ingest>>
       ELSE /\ mkdtemps' = mkdtemps + 1
            /\ ingest' = [ingest EXCEPT
                            !.temp_dir = "exists",
                            !.temp_path = os_path_join(UploadDir, UploadName)]
            /\ pc' = "saving"
            /\ raised' = raised
    /\ UNCHANGED <<locals, entry, maxDepth, input, stack, workspaces, stats, documents,
                   queue, returned, lastExtract, enumerated>>

\* one non-empty chunk goes from the upload to the file at temp_path
SaveChunk ==
    /\ entry = "processFile"
    /\ pc = "saving"
    /\ ingest.reads < input.chunks
    /\ ingest' = [ingest EXCEPT !.file = "exists", !.reads = @ + 1]
    /\ UNCHANGED <<locals, entry, maxDepth, input, pc, stack, workspaces, mkdtemps,
                   stats, documents, queue, raised, returned, lastExtract,
                   enumerated>>

\* the empty chunk ends the copy; the file type selects the processing
SaveDone ==
    /\ entry = "processFile"
    /\ pc = "saving"
    /\ ingest.reads = input.chunks
    /\ ingest' = [ingest EXCEPT !.file = "exists"]
    /\ pc' = IF get_file_type(UploadName) = "archive"
             THEN "archive" ELSE "document"
    /\ UNCHANGED <<locals, entry, maxDepth, input, stack, workspaces, mkdtemps, stats,
                   documents, queue, raised, returned, lastExtract, enumerated>>

\* _process_archive: load_archive starts in the executor
ProcessArchiveLoad ==
    /\ entry = "processFile"
    /\ pc = "archive"
    /\ IF ~is_archive(PathName(ingest.temp_path))
       THEN /\ ingest' = [ingest EXCEPT
                            !.loader_calls = @ + 1,
                            !.pending = Exception("ValueError",
                                                  "unsupported_format")]
            /\ pc' = "finally"
            /\ UNCHANGED <<stack, stats, enumerated>>
       ELSE /\ ingest' = [ingest EXCEPT !.loader_calls = @ + 1]
            /\ stats' = ArchiveProcessingStats
            /\ enumerated' = NoEnumerated
            /\ stack' = <<Frame("proc",
                                [input.arch EXCEPT
                                    !.name = PathName(ingest.temp_path)],
                                <<>>, 0)>>
            /\ pc' = "loading"
    /\ UNCHANGED <<locals, entry, maxDepth, input, workspaces, mkdtemps, documents,
                   queue, raised, returned, lastExtract>>

\* _process_archive: load_archive returned; the documents are split
ProcessArchiveSplit ==
    /\ entry = "processFile"
    /\ pc = "loading"
    /\ stack = <<>>
    /\ \E n \in ChunkCounts(Len(documents)) :
          ingest' = [ingest EXCEPT !.chunks = n, !.i = 0]
    /\ pc' = "indexing"
    /\ UNCHANGED <<locals, entry, maxDepth, input, stack, workspaces, mkdtemps, stats,
                   documents, queue, raised, returned, lastExtract, enumerated>>

\* a slice that takes one chunk more than the batch size
BatchSlice_OneMore(i, n) ==
    [from |-> i,
     to |-> IF i + BATCH_SIZE + 1 < n THEN i + BATCH_SIZE + 1 ELSE n]

\* chunks[i:i + batch_size] of n chunks, as the positions from..to-1
BatchSlice(i, n) ==
    [from |-> i, to |-> IF i + BATCH_SIZE < n THEN i + BATCH_SIZE ELSE n]

\* _process_archive: the batch loop calls add_documents for the next slice
\* and waits for it
ProcessArchiveBatch ==
    /\ entry = "processFile"
    /\ pc = "indexing"
    /\ ingest.i < ingest.chunks
    /\ ingest' = [ingest EXCEPT
                    !.issued = Append(@, BatchSlice(ingest.i, ingest.chunks))]
    /\ pc' = "writing"
    /\ UNCHANGED <<locals, entry, maxDepth, input, stack, workspaces, mkdtemps, stats,
                   documents, queue, raised, returned, lastExtract, enumerated>>

\* _process_archive: the awaited add_documents call ends; the loop goes on
\* after a write and is left by the exception of a failed one
ProcessArchiveWritten ==
    /\ entry = "processFile"
    /\ pc = "writing"
    /\ \E stored \in BOOLEAN :
          IF stored
          THEN /\ ingest' = [ingest EXCEPT
                    !.batches = Append(@, ingest.issued[Len(ingest.issued)]),
                    !.i = @ + BATCH_SIZE]
               /\ pc' = "indexing"
          ELSE /\ ingest' = [ingest EXCEPT
                    !.pending = Exception("ProviderError", "add_documents")]
               /\ pc' = "finally"
    /\ UNCHANGED <<locals, entry, maxDepth, input, stack, workspaces, mkdtemps, stats,
                   documents, queue, raised, returned, lastExtract, enumerated>>

\* the entries _process_archive builds from stats.processed_files
RECURSIVE ProcessedEntries(_)
ProcessedEntries(records) ==
    IF records = <<>> THEN <<>>
    ELSE <<[filename |-> Head(records).filename,
            chunks |-> Head(records).chunks_count]>>
         \o ProcessedEntries(Tail(records))

\* _process_archive: the list of processed files and the result.  Reading an
\* attribute the stats object does not have raises AttributeError.
ProcessArchiveResult ==
    /\ entry = "processFile"
    /\ pc = "indexing"
    /\ ingest.i >= ingest.chunks
    /\ IF "processed_files" \in DOMAIN stats
       THEN ingest' = [ingest EXCEPT !.result =
                IngestionResult(ingest.chunks, stats.files_processed, "archive",
                                ProcessedEntries(stats.processed_files),
                                SubSeq(stats.errors, 1,
                                       IF Len(stats.errors) < 10
                                       THEN Len(stats.errors) ELSE 10))]
       ELSE ingest' = [ingest EXCEPT !.pending =
                Exception("AttributeError", "processed_files")]
    /\ pc' = "finally"
    /\ UNCHANGED <<locals, entry, maxDepth, input, stack, workspaces, mkdtemps, stats,
                   documents, queue, raised, returned, lastExtract, enumerated>>

\* _process_document: load_file in the executor.  No name that
\* _get_file_type calls a document is an archive name, so load_file takes
\* the _load_single_file branch.
ProcessDocumentLoad ==
    /\ entry = "processFile"
    /\ pc = "document"
    /\ LET loaded == load_single_file(
                        [input.file EXCEPT !.path = ingest.temp_path], <<>>)
       IN  IF loaded.exc
           THEN /\ ingest' = [ingest EXCEPT
                                !.loader_calls = @ + 1,
                                !.pending = Exception("LoaderError", "load")]
                /\ pc' = "finally"
                /\ documents' = documents
           ELSE /\ documents' = Yielded(loaded.docs)
                /\ pc' = "document_index"
                /\ ingest' = [ingest EXCEPT !.loader_calls = @ + 1]
    /\ UNCHANGED <<locals, entry, maxDepth, input, stack, workspaces, mkdtemps, stats,
                   queue, raised, returned, lastExtract, enumerated>>

\* _process_document: split, one add_documents call, the result
ProcessDocumentIndex ==
    /\ entry = "processFile"
    /\ pc = "document_index"
    /\ IF documents = <<>>
       THEN ingest' = [ingest EXCEPT !.result =
               IngestionResult(0, 1, "document",
                               <<[filename |-> UploadName, chunks |-> 0]>>,
                               <<>>)]
       ELSE \E n \in ChunkCounts(Len(documents)), stored \in BOOLEAN :
               IF stored
               THEN ingest' = [ingest EXCEPT
                       !.chunks = n,
                       !.issued = Append(@, [from |-> 0, to |-> n]),
                       !.batches = Append(@, [from |-> 0, to |-> n]),
                       !.result =
                          IngestionResult(n, 1, "document",
                              <<[filename |-> UploadName, chunks |-> n]>>,
                              <<>>)]
               ELSE ingest' = [ingest EXCEPT
                       !.chunks = n,
                       !.issued = Append(@, [from |-> 0, to |-> n]),
                       !.pending = Exception("ProviderError", "add_documents")]
    /\ pc' = "finally"
    /\ UNCHANGED <<locals, entry, maxDepth, input, stack, workspaces, mkdtemps, stats,
                   documents, queue, raised, returned, lastExtract, enumerated>>

\* the finally clause of processFile, then the return or the raise
ProcessFileFinally ==
    /\ entry = "processFile"
    /\ pc = "finally"
    /\ ingest' = [ingest EXCEPT
                    !.file = IF @ = "exists" THEN "removed" ELSE @,
                    !.temp_dir = IF @ = "exists" THEN "removed" ELSE @]
    /\ IF ingest.pending # NoException
       THEN /\ raised' = ingest.pending
            /\ returned' = returned
       ELSE /\ returned' = "IngestionResult"
            /\ raised' = raised
    /\ pc' = "done"
    /\ UNCHANGED <<locals, entry, maxDepth, input, stack, workspaces, mkdtemps, stats,
                   documents, queue, lastExtract, enumerated>>

\* ArchiveHandler.iter_files(directory), consumed to its end
IterFiles ==
    /\ entry = "iter_files"
    /\ pc = "start"
    /\ locals' = [op |-> "iter_files",
                  files |-> iter_files(input.root, input.files)]
    /\ returned' = "files"
    /\ pc' = "done"
    /\ UNCHANGED <<ingest, entry, maxDepth, input, stack, workspaces, mkdtemps,
                   stats, documents, queue, raised, lastExtract, enumerated>>

Next ==
    \/ IterFiles
    \/ CallExtract
    \/ ExtractBegin
    \/ ExtractRun
    \/ EnterArchive
    \/ ProcessNestedArchive
    \/ SkipUnsupportedFile
    \/ LoadArchiveFile
    \/ FilesExhausted
    \/ FinallyCleanup
    \/ LoadArchiveStart
    \/ LoadArchiveReturn
    \/ LoadDirectoryScan
    \/ LoadDirectoryRegular
    \/ LoadDirectoryArchive
    \/ LoadDirectoryReturn
    \/ ProcessFileStart
    \/ SaveChunk
    \/ SaveDone
    \/ ProcessArchiveLoad
    \/ ProcessArchiveSplit
    \/ ProcessArchiveBatch
    \/ ProcessArchiveWritten
    \/ ProcessArchiveResult
    \/ ProcessDocumentLoad
    \/ ProcessDocumentIndex
    \/ ProcessFileFinally

Spec == Init /\ [][Next]_vars

\* ------------------------------------------------------------------------
\* Properties
\* ------------------------------------------------------------------------
Done == pc = "done"

\* a member path that is absolute: leading "/" or drive prefix
IsAbsolutePath(p) ==
    \/ p # <<>> /\ p[1] = "/"
    \/ Len(p) >= 2 /\ p[2] = ":"

\* a member path with a parent-directory segment
HasParentSegment(p) ==
    \E i \in 1..Len(Segments(p)) : Segments(p)[i] = <<".", ".">>

UnsafePath(p) == IsAbsolutePath(p) \/ HasParentSegment(p)

HasUnsafeMember(arch) ==
    \E i \in 1..Len(arch.members) : UnsafePath(arch.members[i].path)

\* the last extract call has returned or raised, on a readable archive
Extracted == lastExtract.finished /\ lastExtract.arch.state = "ok"

Rejected ==
    /\ lastExtract.outcome.type = "ArchiveError"
    /\ ~lastExtract.unpacked
    /\ lastExtract.dir \notin workspaces

\* C1: an archive with a member whose path is absolute or has a ".."
\* segment is rejected with ArchiveError, nothing of it is extracted, and
\* the temporary directory of the call is gone when the error is raised.
C1_UnsafePathRejectsArchive ==
    (Extracted /\ HasUnsafeMember(lastExtract.arch)) => Rejected

\* a direct extract call of an archive with a traversal member raised the
\* path error after its temporary directory was created and removed
C1_Witness ==
    /\ entry = "extract"
    /\ Done
    /\ Extracted
    /\ HasUnsafeMember(lastExtract.arch)
    /\ Len(lastExtract.arch.members) = 2
    /\ raised = Exception("ArchiveError", "unsafe_path")
    /\ lastExtract.dir # NoDir
    /\ workspaces = {}

\* the total declared size of the members exceeds MAX_EXTRACTION_RATIO
\* times the size of the archive on disk
IsBomb(arch) ==
    /\ arch.size > 0
    /\ RatioExceeds(SumSizes(arch.members), arch.size, MAX_EXTRACTION_RATIO)

\* C2: an archive of any supported format whose members' total declared
\* size exceeds 100 times its size on disk is rejected with ArchiveError
\* before any member is extracted.
C2_BombRejectedAnyFormat ==
    (/\ Extracted
     /\ get_archive_type(lastExtract.arch.name) # "none"
     /\ IsBomb(lastExtract.arch))
    => (lastExtract.outcome.type = "ArchiveError" /\ ~lastExtract.unpacked)

HasLinkOrDevice(arch) ==
    \E i \in 1..Len(arch.members) :
        arch.members[i].type \in {"sym", "lnk", "chr", "blk", "fifo"}

\* regular files and directories only, safe paths, within the ceilings
BenignTar(arch) ==
    /\ IsTarName(arch.name)
    /\ \A i \in 1..Len(arch.members) :
          /\ arch.members[i].type \in {"reg", "dir"}
          /\ ~UnsafePath(arch.members[i].path)
    /\ arch.size <= MAX_ARCHIVE_SIZE
    /\ Len(arch.members) + arch.extraDirs <= MAX_FILES_IN_ARCHIVE

\* C3: a tar archive with a symbolic-link, hard-link or device member is
\* rejected with ArchiveError and nothing is extracted; a tar archive of
\* regular files and directories with safe paths, within the size and
\* member-count ceilings, is accepted and extracted.
C3_TarLinksRejectedBenignAccepted ==
    (Extracted /\ IsTarName(lastExtract.arch.name)) =>
        /\ HasLinkOrDevice(lastExtract.arch) => Rejected
        /\ BenignTar(lastExtract.arch) =>
              /\ lastExtract.outcome.type # "ArchiveError"
              /\ lastExtract.unpacked

\* every temporary workspace that exists belongs to an extraction that is
\* still running
WorkspacesOwned ==
    \A d \in workspaces :
        \E i \in 1..Len(stack) : stack[i].xdir = d \/ stack[i].temp_dir = d

\* C4: when the extraction of an archive has finished, however it ended, its
\* temporary workspace no longer exists, at every recursion level: a
\* workspace exists only while the level that created it is active, and
\* none is left when a job is over or extract has raised.
C4_WorkspaceReleased ==
    /\ entry # "extract" => WorkspacesOwned
    /\ (entry # "extract" /\ Done) => workspaces = {}
    /\ (entry = "extract" /\ raised # NoException) => workspaces = {}

\* a job that extracted at two levels and recorded an error has ended with
\* no workspace left
C4_Witness ==
    /\ entry = "load_archive"
    /\ Done
    /\ mkdtemps >= 2
    /\ stats.errors # <<>>
    /\ documents # <<>>
    /\ workspaces = {}

\* a depth-exceeded error of the running job
DepthErrors == {i \in 1..Len(stats.errors) : stats.errors[i].kind = "depth"}

\* C5: with MAX_NESTED_DEPTH = 1 and archives nested A > B > C, the
\* depth-exceeded error is recorded for the innermost archive C, whose chain
\* has three names, after A and B, one level below A, were both extracted;
\* it is never recorded for B.
C5_DepthErrorForInnermost ==
    (entry = "load_archive" /\ maxDepth = 1) =>
        \A i \in DepthErrors :
            /\ Len(stats.errors[i].chain) = 3
            /\ mkdtemps >= 2

\* load_archive has returned its documents and statistics
LoadArchiveReturned ==
    \/ entry = "load_archive" /\ returned = "documents_stats"
    \/ entry = "processFile" /\ pc = "indexing"

FileErrors == {i \in 1..Len(stats.errors) : stats.errors[i].kind = "file"}

\* the archive of the example: two valid documents, one file with an
\* unsupported extension, one nested archive
ExampleArchive ==
    Archive(N_t_zip, 1,
            <<Reg(N_a_txt, 1), Mem(N_b_pdf, "reg", 1, "docs", "docs"),
              Reg(N_x_bin, 1), Reg(N_n_zip, 1)>>, 0, "ok")

\* the example ran: the nested archive held one valid document and was
\* extracted with MAX_NESTED_DEPTH = 2
ExampleRun ==
    /\ entry = "load_archive"
    /\ returned = "documents_stats"
    /\ input = ExampleArchive
    /\ maxDepth = 2
    /\ lastExtract = [arch |-> Archive(N_n_zip, 1, <<Reg(N_a_txt, 1)>>, 0, "ok"),
                      dir |-> 2, outcome |-> NoException, unpacked |-> TRUE,
                      finished |-> TRUE]
    /\ stats.errors = <<>>

\* C6: when load_archive has returned, every enumerated file that is no
\* archive has incremented exactly one of files_processed, files_skipped and
\* files_failed (a parser exception counts as failed and is recorded),
\* nested_archives is the number of enumerated archives, and the example
\* archive reports 3 processed, 1 skipped, 1 nested.
C6_CountersPartitionFiles ==
    /\ LoadArchiveReturned =>
          /\ stats.files_processed + stats.files_skipped + stats.files_failed
                = enumerated.files
          /\ stats.nested_archives = enumerated.archives
          /\ stats.files_failed = Cardinality(FileErrors)
    /\ ExampleRun =>
          /\ stats.files_processed = 3
          /\ stats.files_skipped = 1
          /\ stats.nested_archives = 1

\* the example ran, and so did a job with a failed file and a skipped one
C6_Witness ==
    /\ ExampleRun
    /\ stats.files_processed = 3
    /\ Len(documents) = 4

\* the directory of the scenario: a.txt and evil.zip, in either order
ScenarioDirectory ==
    /\ Len(input) = 2
    /\ {input[1], input[2]} =
          { DirEntry(Reg(N_a_txt, 1), NoArchive),
            DirEntry(Reg(N_evil_zip, 1),
                     Archive(N_evil_zip, 1, <<Reg(P_up_evil_txt, 1)>>, 0, "ok")) }

\* C7: load_directory over a.txt and evil.zip (one traversal member) raises
\* nothing, yields exactly one document, of a.txt, and the error list of
\* the job has exactly one entry, which names evil.zip.
C7_EvilZipScenario ==
    (entry = "load_directory" /\ Done /\ ScenarioDirectory) =>
        /\ raised = NoException
        /\ Len(documents) = 1
        /\ documents[1].filename = N_a_txt
        /\ Len(stats.errors) = 1
        /\ stats.errors[1].name = N_evil_zip
        /\ stats.errors[1].kind = "archive"

C7_Witness ==
    /\ entry = "load_directory"
    /\ Done
    /\ ScenarioDirectory
    /\ returned = "exhausted"
    /\ lastExtract.outcome = Exception("ArchiveError", "unsafe_path")

\* C8: when load_archive has returned, stats.processed_files holds one
\* record per file counted in files_processed.
C8_ProcessedFilesRecorded ==
    LoadArchiveReturned =>
        /\ "processed_files" \in DOMAIN stats
        /\ Len(stats.processed_files) = stats.files_processed

\* C9: every document of a file inside archives carries as archive_source
\* the names of the archives that contain the file, outermost first; no
\* later step changes it.
C9_ArchiveSourceIsChain ==
    \A i \in 1..Len(documents) :
        documents[i].containers # <<>> =>
            documents[i].archive_source = JoinArrow(documents[i].containers)

\* a document from three levels down, followed by a document of a sibling
\* nested archive
C9_Witness ==
    \E i, j \in 1..Len(documents) :
        /\ i < j
        /\ Len(documents[i].containers) = 3
        /\ documents[j].containers = <<N_t_zip, N_m_tar>>
        /\ documents[i].archive_source =
              N_t_zip \o <<" ", "->", " ">> \o N_n_zip
                      \o <<" ", "->", " ">> \o N_n_zip

\* the name ends in a supported document or archive extension
HasKnownExtension(name) ==
    \E ext \in SUPPORTED_EXTENSIONS \cup ARCHIVE_EXTENSIONS
               \cup COMPOUND_ARCHIVE_EXTENSIONS :
        EndsWith(Lower(name), ext)

\* C10: processFile with an agent, on an upload whose name ends in no
\* supported extension, raises ValueError before any I/O: no temporary
\* directory, no read of the upload, no loader call, no store call.
C10_UnknownTypeBeforeIO ==
    (/\ entry = "processFile"
     /\ input.agent
     /\ ~HasKnownExtension(input.filename)
     /\ pc # "start")
    => /\ Done
       /\ raised = Exception("ValueError", "unsupported_format")
       /\ mkdtemps = 0
       /\ ingest = NoIngest
       /\ stack = <<>>
       /\ workspaces = {}
       /\ documents = <<>>

C10_Witness ==
    /\ entry = "processFile"
    /\ input.agent
    /\ input.filename = N_x_bin
    /\ input.chunks = 1
    /\ Done
    /\ raised.type = "ValueError"

\* the upload is an archive that cannot be opened or that validation rejects
MalformedArchiveUpload ==
    /\ get_file_type(UploadName) = "archive"
    /\ is_archive(PathName(os_path_join(UploadDir, UploadName)))
    /\ \/ input.arch.state = "corrupt"
       \/ /\ input.arch.state = "ok"
          /\ validate_zip(input.arch) # "ok"

\* the upload is a document no parser can read
UnreadableDocumentUpload ==
    /\ get_file_type(UploadName) = "document"
    /\ load_single_file([input.file EXCEPT
                            !.path = os_path_join(UploadDir, UploadName)],
                        <<>>).exc

\* the errors of the loader's taxonomy
LoaderErrorTypes == {"ArchiveError", "LoaderError", "ValueError"}

\* errors recorded for the uploaded archive itself, not for a member of it
TopLevelErrors ==
    {i \in 1..Len(stats.errors) :
        stats.errors[i].kind = "archive" /\ Len(stats.errors[i].chain) = 1}

\* C11: a malformed single upload (a corrupt archive, an archive rejected by
\* validation, an unreadable document) makes processFile raise a typed error
\* instead of returning an IngestionResult, nothing is written to the vector
\* store, and the failure of the upload itself is not accumulated into the
\* error list, which is for the members of a batch.
C11_MalformedUploadFailsCall ==
    (/\ entry = "processFile"
     /\ input.agent
     /\ Done
     /\ MalformedArchiveUpload \/ UnreadableDocumentUpload)
    => /\ raised.type \in LoaderErrorTypes
       /\ returned # "IngestionResult"
       /\ ingest.batches = <<>>
       /\ TopLevelErrors = {}

\* ------------------------------------------------------------------------
\* QdrantVectorStore.mmr_search
\* ------------------------------------------------------------------------
\* points the collection may hold for one query
MaxPoints == 3

\* QdrantConfig.search_k
SEARCH_K == 5

\* QdrantConfig.mmr_lambda, in tenths (0.7); lambda_mult is in tenths
\* throughout
MMR_LAMBDA == 7

\* the variables of the document loader and of the ingestion service
loaderVars == <<maxDepth, stack, workspaces, mkdtemps, stats, documents, queue,
                ingest, lastExtract, enumerated>>

\* no loader or ingestion call is running
LoaderIdle ==
    /\ maxDepth = MAX_NESTED_DEPTH
    /\ stack = <<>>
    /\ workspaces = {}
    /\ mkdtemps = 0
    /\ stats = ArchiveProcessingStats
    /\ documents = <<>>
    /\ queue = [regular_files |-> <<>>, archive_files |-> <<>>]
    /\ ingest = NoIngest
    /\ lastExtract = NoExtract
    /\ enumerated = NoEnumerated

\* np.dot
RECURSIVE DotFrom(_, _, _)
DotFrom(a, b, i) ==
    IF i > Len(a) THEN 0 ELSE a[i] * b[i] + DotFrom(a, b, i + 1)

Dot(a, b) == DotFrom(a, b, 1)

\* the vectors the collection stores: with Distance.COSINE the store keeps
\* every vector normalized, so all have one norm (5 here, for integers)
StoredVectors == << <<5, 0>>, <<4, 3>>, <<0, 5>> >>

\* the embeddings of the query, as the provider returns them
QueryVectors == { <<1, 0>>, <<2, 1>> }

\* the score the store reports for a stored vector: the cosine similarity,
\* here multiplied by the positive constant |query| * 5
StoreScore(query_vector, stored) == Dot(query_vector, stored)

\* a stored point: its vector, and whether the response carries the vector
PointKinds ==
    << [stored |-> StoredVectors[1], carries |-> TRUE],
       [stored |-> StoredVectors[2], carries |-> TRUE],
       [stored |-> StoredVectors[3], carries |-> TRUE],
       [stored |-> StoredVectors[1], carries |-> FALSE],
       [stored |-> StoredVectors[2], carries |-> FALSE],
       [stored |-> StoredVectors[3], carries |-> FALSE] >>

\* query_points returns the nearest points first
NearestFirst(query_vector, collection) ==
    \A i \in 1..Len(collection) - 1 :
        StoreScore(query_vector, collection[i].stored)
            >= StoreScore(query_vector, collection[i + 1].stored)

\* the default None of the arguments k and lambda_mult
NoArgument == -1

\* the calls of mmr_search: k and lambda_mult are None or a number, 0
\* included; embed is the outcome of aembed_query; the collection holds at
\* most max_points points
SearchCalls(max_points) ==
    { call \in
        { [query_vector |-> q, collection |-> c, k |-> k, fetch_k |-> f,
           lambda_mult |-> l, embed |-> "ok"] :
            q \in QueryVectors,
            c \in Arrangements(PointKinds, max_points),
            k \in {NoArgument} \cup 0..max_points + 1,
            f \in 1..max_points,
            l \in {NoArgument, 0, 5, 10} } :
        NearestFirst(call.query_vector, call.collection) }
    \cup
    { [query_vector |-> q, collection |-> <<>>, k |-> NoArgument,
       fetch_k |-> 1, lambda_mult |-> NoArgument, embed |-> "fail"] :
        q \in QueryVectors }

\* results.points of client.query_points(limit=fetch_k, with_vectors=True)
QueryPoints(call) ==
    [i \in 1..(IF call.fetch_k < Len(call.collection)
               THEN call.fetch_k ELSE Len(call.collection)) |->
        [vector |-> IF call.collection[i].carries
                    THEN call.collection[i].stored ELSE <<>>,
         score |-> StoreScore(call.query_vector, call.collection[i].stored),
         payload |-> i]]

\* the candidates list: the points with a vector
Candidates(points) == SelectSeq(points, LAMBDA point : point.vector # <<>>)

\* x or default: None and 0 are both falsy
Or(x, default) == IF x = NoArgument \/ x = 0 THEN default ELSE x

\* k or self.config.search_k
EffectiveK(k) == Or(k, SEARCH_K)

\* lambda_mult or self.config.mmr_lambda
EffectiveLambda(lambda_mult) == Or(lambda_mult, MMR_LAMBDA)

\* _points_to_documents, and the documents built from the selection
PointDocument(point) == [payload |-> point.payload, score |-> point.score]

\* an MMR value that always weighs with the configured lambda
MmrValue_ConfigLambda(lambda_mult, relevance, diversity) ==
    MMR_LAMBDA * relevance - (10 - MMR_LAMBDA) * diversity

\* lambda_mult * relevance - (1 - lambda_mult) * diversity, times ten
MmrValue(lambda_mult, relevance, diversity) ==
    lambda_mult * relevance - (10 - lambda_mult) * diversity

\* the mmr of candidate idx against the selection
MmrScore(candidates, query_vector, selected, lambda_mult, idx) ==
    LET relevance == Dot(query_vector, candidates[idx].vector)
        diversity == SetMax({Dot(candidates[idx].vector,
                                 candidates[selected[j]].vector) :
                                j \in 1..Len(selected)})
    IN  MmrValue(lambda_mult, relevance, diversity)

\* max(remaining, key=...): the first entry of remaining with the largest key
BestIdx(candidates, query_vector, selected, remaining, lambda_mult) ==
    LET Key(idx) == IF selected = <<>>
                    THEN candidates[idx].score
                    ELSE MmrScore(candidates, query_vector, selected,
                                  lambda_mult, idx)
        first == CHOOSE i \in 1..Len(remaining) :
                    /\ \A j \in 1..Len(remaining) :
                          Key(remaining[j]) <= Key(remaining[i])
                    /\ \A j \in 1..(i - 1) :
                          Key(remaining[j]) < Key(remaining[i])
    IN  remaining[first]

\* a selection step that leaves the chosen index among the remaining ones
Remove_Keep(remaining, best_idx) == remaining

\* remaining.remove(best_idx)
Remove(remaining, best_idx) ==
    SelectSeq(remaining, LAMBDA idx : idx # best_idx)

\* mmr_search up to the MMR loop: the embedding of the query, query_points,
\* the candidates
MmrFetch ==
    /\ entry = "mmr_search"
    /\ pc = "start"
    /\ LET points == QueryPoints(input)
           candidates == Candidates(points)
           k == EffectiveK(input.k)
           shown == IF k < Len(points) THEN k ELSE Len(points)
           base == [op |-> "mmr_search", k |-> k,
                    lambda_mult |-> EffectiveLambda(input.lambda_mult),
                    points |-> points,
                    candidates |-> candidates, selected |-> <<>>,
                    remaining |-> <<>>, round |-> 0, rounds |-> 0,
                    result |-> <<>>]
       IN  IF input.embed = "fail"
           THEN /\ raised' = Exception("RuntimeError", "embeddings")
                /\ locals' = [op |-> "mmr_search"]
                /\ pc' = "done"
                /\ returned' = returned
           ELSE IF points = <<>>
           THEN /\ locals' = base
                /\ returned' = "documents"
                /\ pc' = "done"
                /\ raised' = raised
           ELSE IF candidates = <<>>
           THEN /\ locals' = [base EXCEPT !.result =
                                [i \in 1..shown |-> PointDocument(points[i])]]
                /\ returned' = "documents"
                /\ pc' = "done"
                /\ raised' = raised
           ELSE /\ locals' = [base EXCEPT
                                !.remaining = [i \in 1..Len(candidates) |-> i],
                                !.rounds = IF k < Len(candidates)
                                           THEN k ELSE Len(candidates)]
                /\ pc' = "select"
                /\ UNCHANGED <<raised, returned>>
    /\ UNCHANGED <<entry, input, loaderVars>>

\* one round of the greedy loop
MmrSelect ==
    /\ entry = "mmr_search"
    /\ pc = "select"
    /\ locals.round < locals.rounds
    /\ locals.remaining # <<>>
    /\ LET best_idx == BestIdx(locals.candidates, input.query_vector,
                               locals.selected, locals.remaining,
                               locals.lambda_mult)
       IN  locals' = [locals EXCEPT
                        !.selected = Append(@, best_idx),
                        !.remaining = Remove(@, best_idx),
                        !.round = @ + 1]
    /\ UNCHANGED <<entry, input, pc, raised, returned, loaderVars>>

\* the loop is over: the documents of the selected candidates are returned
MmrReturn ==
    /\ entry = "mmr_search"
    /\ pc = "select"
    /\ locals.round >= locals.rounds \/ locals.remaining = <<>>
    /\ locals' = [locals EXCEPT !.result =
                    [i \in 1..Len(locals.selected) |->
                        PointDocument(locals.candidates[locals.selected[i]])]]
    /\ returned' = "documents"
    /\ pc' = "done"
    /\ UNCHANGED <<entry, input, raised, loaderVars>>

InitSearch ==
    /\ entry = "mmr_search"
    /\ input \in SearchCalls(MaxPoints)
    /\ pc = "start"
    /\ raised = NoException
    /\ returned = "nothing"
    /\ locals = NoLocals
    /\ LoaderIdle

NextSearch ==
    \/ MmrFetch
    \/ MmrSelect
    \/ MmrReturn

SpecSearch == InitSearch /\ [][NextSearch]_vars

\* how often idx occurs in a list of indices
Occurrences(list, idx) == Cardinality({i \in 1..Len(list) : list[i] = idx})

\* the MMR loop of the call has begun
MmrLoopEntered == entry = "mmr_search" /\ "selected" \in DOMAIN locals

\* C12: in mmr_search no candidate index is selected twice: after every
\* greedy step, selected and remaining are disjoint and together hold every
\* candidate index exactly once.
C12_SelectedRemainingPartition ==
    MmrLoopEntered =>
        \A idx \in 1..Len(locals.candidates) :
            Occurrences(locals.selected, idx)
                + Occurrences(locals.remaining, idx) = 1

\* two greedy steps were taken over three candidates, one index is left
C12_Witness ==
    /\ MmrLoopEntered
    /\ Len(locals.candidates) = 3
    /\ Len(locals.selected) = 2
    /\ Len(locals.remaining) = 1
    /\ input.lambda_mult = 5

\* mmr_search has returned its documents
SearchReturned ==
    entry = "mmr_search" /\ Done /\ returned = "documents"

\* C13: with lambda_mult = 1.0, mmr_search returns the selected candidates
\* in descending order of the score the store reported for each point.
C13_LambdaOneOrdersByScore ==
    (SearchReturned /\ input.lambda_mult = 10) =>
        \A i \in 1..Len(locals.result) - 1 :
            locals.result[i].score >= locals.result[i + 1].score

\* three candidates with three different scores were returned for
\* lambda_mult = 1.0
C13_Witness ==
    /\ SearchReturned
    /\ input.lambda_mult = 10
    /\ Len(locals.selected) = 3
    /\ locals.result[1].score > locals.result[2].score
    /\ locals.result[2].score > locals.result[3].score

\* C14: when k >= fetch_k, mmr_search returns every fetched point exactly
\* once and drops none.
C14_AllFetchedReturned ==
    (SearchReturned /\ input.k >= input.fetch_k) =>
        /\ Len(locals.result) = Len(locals.points)
        /\ \A i \in 1..Len(locals.points) :
              Cardinality({j \in 1..Len(locals.result) :
                              locals.result[j].payload
                                  = locals.points[i].payload}) = 1

\* ---------------------------------------------------------------------------
\* LegalRAGAgent: the source references of an answer

MaxDocs == 3

\* dict.get(key, default)
Get(metadata, key, default) ==
    IF key \in DOMAIN metadata THEN metadata[key] ELSE default

\* an optional value: <<>> is None, <<v>> is the value v
None == <<>>

Some(v) == <<v>>

\* Python truth of an optional string
Truthy(opt) == opt # None /\ opt[1] # ""

\* the metadata of the documents a source list is extracted from: a
\* document retrieved from the store has filename, page and score and no
\* archive_source (add_documents stores none); a document of the loader that
\* came out of an archive also names its archive chain
DocMetadata ==
    << [filename |-> "", page |-> None, score |-> 3],
       [filename |-> "", page |-> Some(1), score |-> 3],
       [filename |-> "a.txt", page |-> None, score |-> 3],
       [filename |-> "a.txt", page |-> Some(1), score |-> 3],
       [filename |-> "a.txt", page |-> None, score |-> 5],
       [filename |-> "a.txt", page |-> Some(1), score |-> 5],
       [filename |-> "a.txt", page |-> Some(0), score |-> 5],
       [filename |-> "a.txt", page |-> None, score |-> 3,
        archive_source |-> Some("t.zip")],
       [filename |-> "a.txt", page |-> Some(1), score |-> 5,
        archive_source |-> Some("t.zip")],
       [filename |-> "a.txt", page |-> Some(1), score |-> 3,
        archive_source |-> Some("t.zip > n.zip")] >>

\* a deduplication key that also looks at the score
ExtractKey_WithScore(metadata) ==
    <<Get(metadata, "filename", ""), Get(metadata, "page", Some(0)),
      Get(metadata, "archive_source", None), metadata.score>>

\* key = (filename, page, archive)
ExtractKey(metadata) ==
    <<Get(metadata, "filename", ""), Get(metadata, "page", Some(0)),
      Get(metadata, "archive_source", None)>>

\* the source_info of a document; "Neizvestno" is the placeholder shown for
\* an empty filename
SourceInfo(metadata) ==
    LET filename == Get(metadata, "filename", "")
        archive == Get(metadata, "archive_source", None)
        info == [filename |-> IF filename = "" THEN "Neizvestno" ELSE filename,
                 page |-> Get(metadata, "page", Some(0)),
                 score |-> Get(metadata, "score", None)]
    IN  IF Truthy(archive)
        THEN [k \in DOMAIN info \cup {"archive"} |->
                 IF k = "archive" THEN archive[1] ELSE info[k]]
        ELSE info

RECURSIVE ExtractFrom(_, _, _, _)
ExtractFrom(docs, i, seen, sources) ==
    IF i > Len(docs) THEN sources
    ELSE LET key == ExtractKey(docs[i]) IN
         IF key \in seen
         THEN ExtractFrom(docs, i + 1, seen, sources)
         ELSE ExtractFrom(docs, i + 1, seen \cup {key},
                          Append(sources, SourceInfo(docs[i])))

\* LegalRAGAgent._extract_sources
ExtractSourcesOf(docs) == ExtractFrom(docs, 1, {}, <<>>)

\* the calls of _extract_sources
ExtractCalls == Arrangements(DocMetadata, MaxDocs)

ExtractSources ==
    /\ entry = "_extract_sources"
    /\ pc = "start"
    /\ locals' = [op |-> "_extract_sources",
                  sources |-> ExtractSourcesOf(input)]
    /\ returned' = "sources"
    /\ pc' = "done"
    /\ UNCHANGED <<entry, input, raised, loaderVars>>

\* ---------------------------------------------------------------------------
\* LegalRAGAgent: the classification of a question
\*
\* A text is a sequence of characters; a character is a letter of a script
\* ("ru" / "RU" for a small / capital Cyrillic letter, "en" / "EN" for a
\* Latin one) or a punctuation mark.  Cyrillic letters are named by their
\* Latin transliteration ("zh", "ch", "sh", "ya", "soft" for the soft
\* sign, ...), one name per letter, so a text has the length of the original.

Punctuation == {" ", "?", ","}

Char(script, letter) ==
    IF letter \in Punctuation
    THEN [script |-> "", letter |-> letter]
    ELSE [script |-> script, letter |-> letter]

RU(letters) == [i \in 1..Len(letters) |-> Char("ru", letters[i])]

RU_UPPER(letters) == [i \in 1..Len(letters) |-> Char("RU", letters[i])]

EN(letters) == [i \in 1..Len(letters) |-> Char("en", letters[i])]

\* str.lower
str_lower(text) ==
    [i \in 1..Len(text) |->
        [text[i] EXCEPT !.script = CASE @ = "RU" -> "ru"
                                     [] @ = "EN" -> "en"
                                     [] OTHER -> @]]

IsSpace(c) == c.letter = " "

\* str.strip
RECURSIVE str_strip(_)
str_strip(text) ==
    IF text = <<>> THEN text
    ELSE IF IsSpace(Head(text)) THEN str_strip(Tail(text))
    ELSE IF IsSpace(text[Len(text)])
         THEN str_strip(SubSeq(text, 1, Len(text) - 1))
    ELSE text

\* len(text.split()): the number of maximal runs without whitespace
WordCount(text) ==
    Cardinality({i \in 1..Len(text) :
                    /\ ~IsSpace(text[i])
                    /\ i = 1 \/ IsSpace(text[i - 1])})

\* '?' in text
HasQuestionMark(text) == \E i \in 1..Len(text) : text[i].letter = "?"

\* the patterns, all anchored at the start: parts are separated by \s+, a
\* part is a set of alternative words, exact is the closing $; the optional
\* group of the fifth pattern is written as two patterns
CONVERSATIONAL_PATTERNS ==
    << [exact |-> FALSE,
        parts |-> <<{RU(<<"p", "r", "i", "v", "e", "t">>)}>>],
       [exact |-> FALSE,
        parts |-> <<{RU(<<"z", "d", "r", "a", "v", "s", "t", "v", "u", "j">>)}>>],
       [exact |-> FALSE,
        parts |-> <<{RU(<<"d", "o", "b", "r", "y", "j">>)},
                  {RU(<<"d", "e", "n", "soft">>),
                   RU(<<"v", "e", "ch", "e", "r">>),
                   RU(<<"u", "t", "r", "o">>)}>>],
       [exact |-> FALSE,
        parts |-> <<{RU(<<"k", "a", "k">>)},
                  {RU(<<"d", "e", "l", "a">>),
                   RU(<<"p", "o", "zh", "i", "v", "a", "e", "sh", "soft">>),
                   RU(<<"zh", "i", "z", "n", "soft">>)}>>],
       [exact |-> FALSE,
        parts |-> <<{RU(<<"ch", "t", "o">>)},
                  {RU(<<"t", "y">>)},
                  {RU(<<"u", "m", "e", "e", "sh", "soft">>)}>>],
       [exact |-> FALSE,
        parts |-> <<{RU(<<"ch", "t", "o">>)},
                  {RU(<<"u", "m", "e", "e", "sh", "soft">>)}>>],
       [exact |-> FALSE,
        parts |-> <<{RU(<<"k", "t", "o">>)},
                  {RU(<<"t", "y">>)}>>],
       [exact |-> FALSE,
        parts |-> <<{RU(<<"t", "y">>)},
                  {RU(<<"k", "t", "o">>)}>>],
       [exact |-> FALSE,
        parts |-> <<{RU(<<"s", "p", "a", "s", "i", "b", "o">>)}>>],
       [exact |-> FALSE,
        parts |-> <<{RU(<<"b", "l", "a", "g", "o", "d", "a", "r">>)}>>],
       [exact |-> TRUE,
        parts |-> <<{RU(<<"p", "o", "k", "a">>)}>>],
       [exact |-> FALSE,
        parts |-> <<{RU(<<"d", "o">>)},
                  {RU(<<"s", "v", "i", "d", "a", "n", "i", "ya">>)}>>],
       [exact |-> TRUE,
        parts |-> <<{RU(<<"h", "o", "r", "o", "sh", "o">>)}>>],
       [exact |-> TRUE,
        parts |-> <<{RU(<<"o", "k">>)}>>],
       [exact |-> FALSE,
        parts |-> <<{RU(<<"p", "o", "n", "ya", "t", "n", "o">>)}>>],
       [exact |-> FALSE,
        parts |-> <<{RU(<<"ya", "s", "n", "o">>)}>>],
       [exact |-> TRUE,
        parts |-> <<{RU(<<"p", "o", "m", "o", "shch", "soft">>)}>>],
       [exact |-> TRUE,
        parts |-> <<{EN(<<"h", "e", "l", "p">>)}>>],
       [exact |-> TRUE,
        parts |-> <<{EN(<<"s", "t", "a", "r", "t">>)}>>] >>

\* re.match of the parts from index i on at position pos of the text
RECURSIVE MatchFrom(_, _, _, _, _)
MatchFrom(text, pos, parts, i, exact) ==
    IF i > Len(parts) THEN (exact => pos = Len(text) + 1)
    ELSE \E word \in parts[i] :
            /\ pos + Len(word) - 1 <= Len(text)
            /\ SubSeq(text, pos, pos + Len(word) - 1) = word
            /\ IF i = Len(parts)
               THEN MatchFrom(text, pos + Len(word), parts, i + 1, exact)
               ELSE \E n \in 1..(Len(text) - pos - Len(word) + 1) :
                       /\ \A j \in 0..(n - 1) :
                             IsSpace(text[pos + Len(word) + j])
                       /\ MatchFrom(text, pos + Len(word) + n, parts, i + 1,
                                    exact)

re_match(pattern, text) == MatchFrom(text, 1, pattern.parts, 1, pattern.exact)

\* legal_keywords of _is_conversational
ShortLegalKeywords ==
    <<RU(<<"z", "a", "k", "o", "n">>), RU(<<"p", "r", "a", "v", "o">>),
       RU(<<"s", "t", "a", "t", "soft", "ya">>),
       RU(<<"d", "o", "g", "o", "v", "o", "r">>), RU(<<"s", "u", "d">>),
       RU(<<"i", "s", "k">>),
       RU(<<"o", "t", "v", "e", "t", "s", "t", "v", "e", "n", "n", "o", "s", "t", "soft">>),
       RU(<<"sh", "t", "r", "a", "f">>),
       RU(<<"u", "v", "o", "l", "soft", "n", "e", "n", "i", "e">>),
       RU(<<"t", "r", "u", "d", "o", "v">>) >>

\* legal_keywords of _is_legal_question
LegalKeywords ==
    <<RU(<<"z", "a", "k", "o", "n">>), RU(<<"p", "r", "a", "v", "o">>),
       RU(<<"s", "t", "a", "t", "soft", "ya">>),
       RU(<<"p", "u", "n", "k", "t">>),
       RU(<<"d", "o", "g", "o", "v", "o", "r">>),
       RU(<<"k", "o", "n", "t", "r", "a", "k", "t">>), RU(<<"s", "u", "d">>),
       RU(<<"i", "s", "k">>), RU(<<"i", "s", "t", "e", "c">>),
       RU(<<"o", "t", "v", "e", "t", "ch", "i", "k">>),
       RU(<<"z", "a", "ya", "v", "l", "e", "n", "i", "e">>),
       RU(<<"zh", "a", "l", "o", "b", "a">>),
       RU(<<"o", "t", "v", "e", "t", "s", "t", "v", "e", "n", "n", "o", "s", "t", "soft">>),
       RU(<<"sh", "t", "r", "a", "f">>),
       RU(<<"n", "a", "k", "a", "z", "a", "n", "i", "e">>),
       RU(<<"s", "a", "n", "k", "c">>),
       RU(<<"u", "v", "o", "l", "soft", "n", "e", "n", "i", "e">>),
       RU(<<"t", "r", "u", "d", "o", "v">>),
       RU(<<"r", "a", "b", "o", "t", "o", "d", "a", "t", "e", "l", "soft">>),
       RU(<<"r", "a", "b", "o", "t", "n", "i", "k">>),
       RU(<<"n", "a", "l", "o", "g">>), RU(<<"n", "d", "f", "l">>),
       RU(<<"n", "d", "s">>), RU(<<"v", "z", "n", "o", "s">>),
       RU(<<"s", "o", "b", "s", "t", "v", "e", "n", "n", "o", "s", "t", "soft">>),
       RU(<<"i", "m", "u", "shch", "e", "s", "t", "v", "o">>),
       RU(<<"n", "a", "s", "l", "e", "d", "s", "t", "v">>),
       RU(<<"r", "a", "z", "v", "o", "d">>),
       RU(<<"a", "l", "i", "m", "e", "n", "t">>),
       RU(<<"o", "p", "e", "k", "a">>), RU(<<"b", "r", "a", "k">>),
       RU(<<"a", "r", "e", "n", "d">>), RU(<<"n", "a", "j", "m">>),
       RU(<<"l", "i", "c", "e", "n", "z", "i">>),
       RU(<<"r", "a", "z", "r", "e", "sh", "e", "n", "i">>),
       RU(<<"r", "e", "g", "i", "s", "t", "r", "a", "c">>),
       RU(<<"d", "o", "k", "u", "m", "e", "n", "t">>),
       RU(<<"s", "p", "r", "a", "v", "k">>),
       RU(<<"o", "b", "ya", "z", "a", "n">>),
       RU(<<"d", "o", "l", "zh", "e", "n">>),
       RU(<<"m", "o", "zh", "n", "o", " ", "l", "i">>),
       RU(<<"i", "m", "e", "yu", " ", "l", "i", " ", "p", "r", "a", "v", "o">>),
       RU(<<"k", "a", "k", " ", "o", "f", "o", "r", "m", "i", "t", "soft">>),
       RU(<<"k", "a", "k", " ", "s", "o", "s", "t", "a", "v", "i", "t", "soft">>),
       RU(<<"k", "a", "k", " ", "p", "o", "d", "a", "t", "soft">>),
       RU(<<"k", "a", "k", "i", "e", " ", "d", "o", "k", "u", "m", "e", "n", "t", "y">>),
       RU(<<"k", "a", "k", "o", "j", " ", "s", "r", "o", "k">>),
       RU(<<"k", "a", "k", "o", "j", " ", "p", "o", "r", "ya", "d", "o", "k">>),
       RU(<<"ch", "t", "o", " ", "d", "e", "l", "a", "t", "soft", " ", "e", "s", "l", "i">>),
       RU(<<"ch", "t", "o", " ", "g", "r", "o", "z", "i", "t">>),
       RU(<<"ch", "t", "o", " ", "b", "u", "d", "e", "t">>),
       RU(<<"g", "k", " ", "r", "f">>), RU(<<"t", "k", " ", "r", "f">>),
       RU(<<"u", "k", " ", "r", "f">>), RU(<<"k", "o", "a", "p">>),
       RU(<<"k", "o", "n", "s", "t", "i", "t", "u", "c">>) >>

AnyKeyword(keywords, text) ==
    \E n \in 1..Len(keywords) : Contains(text, keywords[n])

\* LegalRAGAgent._is_conversational
IsConversational(question) ==
    LET question_lower == str_strip(str_lower(question)) IN
    IF \E n \in 1..Len(CONVERSATIONAL_PATTERNS) :
          re_match(CONVERSATIONAL_PATTERNS[n], question_lower)
    THEN TRUE
    ELSE IF /\ WordCount(question_lower) <= 2
            /\ ~HasQuestionMark(question)
            /\ ~AnyKeyword(ShortLegalKeywords, question_lower)
    THEN TRUE
    ELSE FALSE

\* LegalRAGAgent._is_legal_question
IsLegalQuestion(question) == AnyKeyword(LegalKeywords, str_lower(question))

\* the questions: a beginning, a middle that is a domain keyword or another
\* word, and an end
Prefixes ==
    { <<>>,
      RU(<<"p", "r", "i", "v", "e", "t", ",", " ">>),
      RU_UPPER(<<"s">>) \o RU(<<"p", "a", "s", "i", "b", "o", " ">>),
      RU(<<"ya", "s", "n", "o", " ", " ">>),
      RU(<<" ", " ">>) }

Others ==
    { RU(<<"p", "r", "i", "v", "e", "t">>),
      RU(<<"s", "p", "a", "s", "i", "b", "o">>),
      RU(<<"p", "o", "g", "o", "d", "a">>),
      RU(<<"p", "o", "k", "a">>),
      EN(<<"h", "e", "l", "p">>),
      RU(<<"h", "o", "r", "o", "sh", "o">>),
      RU(<<"k", "t", "o", " ", "t", "y">>),
      RU(<<"ch", "t", "o", " ", "t", "y", " ", "u", "m", "e", "e", "sh", "soft">>),
      RU(<<"ch", "t", "o", " ", "u", "m", "e", "e", "sh", "soft">>),
      RU(<<"d", "o", "b", "r", "y", "j", " ", " ", "v", "e", "ch", "e", "r">>),
      RU(<<"d", "o", " ", "s", "v", "i", "d", "a", "n", "i", "ya">>),
      RU(<<"o", "k">>),
      RU(<<"s", "t", "a", "r", "t">>) }

Suffixes ==
    { <<>>,
      RU(<<"?">>),
      RU(<<" ">>),
      RU(<<" ", "v", " ", "r", "o", "s", "s", "i", "i", " ", "s", "e", "g", "o", "d", "n", "ya">>) }

Questions ==
    { prefix \o middle \o suffix :
        prefix \in Prefixes,
        middle \in {LegalKeywords[n] : n \in 1..Len(LegalKeywords)}
                      \cup Others,
        suffix \in Suffixes }

\* the question is classified
Classify ==
    /\ entry = "_is_conversational"
    /\ pc = "start"
    /\ locals' = [op |-> "_is_conversational",
                  result |-> IsConversational(input)]
    /\ returned' = "bool"
    /\ pc' = "done"
    /\ UNCHANGED <<entry, input, raised, loaderVars>>

\* ---------------------------------------------------------------------------
\* LegalRAGAgent.query

\* MIN_RELEVANCE_SCORE, in hundredths
MIN_RELEVANCE_SCORE == 25

MIN_QUESTION_LENGTH == 10

\* YandexGPTClient.complete is a plain function, not a coroutine function
CompleteIsCoroutine == FALSE

QueryQuestions ==
    { RU(<<"p", "r", "i", "v", "e", "t">>),
      RU(<<"t", "k", " ", "r", "f">>),
      RU(<<"n", "a", "l", "o", "g", "?">>),
      RU(<<"p", "o", "g", "o", "d", "a", "?">>),
      RU(<<"p", "o", "g", "o", "d", "a", " ", "v", " ", "r", "o", "s", "s",
         "i", "i", " ", "s", "e", "g", "o", "d", "n", "ya">>),
      RU(<<"z", "a", "k", "o", "n", " ", "v", " ", "r", "o", "s", "s", "i",
         "i", " ", "s", "e", "g", "o", "d", "n", "ya">>),
      RU(<<"p", "r", "i", "v", "e", "t", ",", " ", "z", "a", "k", "o", "n",
         " ", "v", " ", "r", "o", "s", "s", "i", "i", " ", "s", "e", "g", "o",
         "d", "n", "ya">>) }


\* the documents vector_store.search can return, nearest first: filename,
\* page and score, the score in hundredths
RetrievedMetadata ==
    << [filename |-> "a.txt", page |-> Some(1), score |-> 40],
       [filename |-> "b.pdf", page |-> None, score |-> 40],
       [filename |-> "a.txt", page |-> Some(1), score |-> 25],
       [filename |-> "a.txt", page |-> Some(2), score |-> 10] >>

MaxRetrieved == 2

NonIncreasingScores(docs) ==
    \A i \in 1..Len(docs) - 1 : docs[i].score >= docs[i + 1].score

\* the phrases of an answer that found nothing in the context
no_info_phrases ==
    << RU(<<"v", " ", "p", "r", "e", "d", "o", "s", "t", "a", "v", "l", "e",
            "n", "n", "o", "m", " ", "k", "o", "n", "t", "e", "k", "s", "t",
            "e", " ", "n", "e", "t">>),
       RU(<<"v", " ", "d", "o", "k", "u", "m", "e", "n", "t", "a", "h", " ",
            "n", "e", " ", "n", "a", "j", "d", "e", "n", "o">>),
       RU(<<"i", "n", "f", "o", "r", "m", "a", "c", "i", "ya", " ", "o",
            "t", "s", "u", "t", "s", "t", "v", "u", "e", "t">>),
       RU(<<"n", "e", " ", "s", "o", "d", "e", "r", "zh", "i", "t", " ",
            "i", "n", "f", "o", "r", "m", "a", "c", "i", "i">>),
       RU(<<"n", "e", "t", " ", "d", "a", "n", "n", "y", "h", " ", "p", "o",
            " ", "eh", "t", "o", "m", "u", " ", "v", "o", "p", "r", "o",
            "s", "u">>) >>

\* an answer of the completion provider
PlainAnswer == RU(<<"d", "a">>)

\* the answer "V dokumentah ne najdeno", with its capital letter
NothingFoundAnswer ==
    RU_UPPER(<<"v">>)
        \o RU(<<" ", "d", "o", "k", "u", "m", "e", "n", "t", "a", "h", " ",
                "n", "e", " ", "n", "a", "j", "d", "e", "n", "o">>)

\* what gpt_client.complete does when it is called: it returns a response
\* with a text or raises YandexGPTError
Completions ==
    { [completion |-> "response", text |-> t] :
        t \in {PlainAnswer, NothingFoundAnswer} }
    \cup { [completion |-> "YandexGPTError", text |-> <<>>] }

\* any(phrase in answer_lower for phrase in no_info_phrases)
SaysNoInformation(text) == AnyKeyword(no_info_phrases, str_lower(text))

\* the calls of query: k = 0 stands for k = None; embed, store and
\* completion are what the three providers do when they are asked
QueryCalls ==
    { [question |-> q, k |-> k, embed |-> "ok", store |-> "ok",
       docs |-> d, completion |-> c.completion, text |-> c.text] :
        q \in QueryQuestions, k \in {0, 2},
        d \in {l \in Arrangements(RetrievedMetadata, MaxRetrieved) :
                  NonIncreasingScores(l)},
        c \in Completions }
    \cup
    { [question |-> q, k |-> 0, embed |-> e, store |-> st,
       docs |-> <<>>, completion |-> "response", text |-> PlainAnswer] :
        q \in QueryQuestions,
        e \in {"ok", "RuntimeError"},
        st \in {"ok", "UnexpectedResponse"} }

NoResponse == [answer |-> "none", sources |-> <<>>, used_rag |-> FALSE]

\* RAGResponse(answer, sources, used_rag)
RAGResponse(answer, sources, used_rag) ==
    [answer |-> answer, sources |-> sources, used_rag |-> used_rag]

QueryLocals ==
    [op |-> "query", embed_requests |-> 0, store_requests |-> 0,
     completion_calls |-> 0, relevant_docs |-> <<>>,
     response |-> NoResponse]

\* a filter that drops the documents without a score
FilterRelevantSources_ScoredOnly(docs) ==
    SelectSeq(docs, LAMBDA doc : /\ "score" \in DOMAIN doc
                                 /\ doc.score >= MIN_RELEVANCE_SCORE)

\* LegalRAGAgent._filter_relevant_sources: metadata.get("score") is None
\* for a document without a score, and such a document is kept
FilterRelevantSources(docs) ==
    SelectSeq(docs, LAMBDA doc : IF "score" \in DOMAIN doc
                                 THEN doc.score >= MIN_RELEVANCE_SCORE
                                 ELSE TRUE)

\* the documents _filter_relevant_sources is called with: scores above, at
\* and below the threshold and no score at all
FilterDocuments ==
    << [filename |-> "a.txt", page |-> Some(1), score |-> 40],
       [filename |-> "a.txt", page |-> Some(2), score |-> 25],
       [filename |-> "a.txt", page |-> Some(3), score |-> 24],
       [filename |-> "b.pdf", page |-> None] >>

FilterCalls == Arrangements(FilterDocuments, MaxDocs)

FilterSources ==
    /\ entry = "_filter_relevant_sources"
    /\ pc = "start"
    /\ locals' = [op |-> "_filter_relevant_sources",
                  relevant |-> FilterRelevantSources(input)]
    /\ returned' = "relevant"
    /\ pc' = "done"
    /\ UNCHANGED <<entry, input, raised, loaderVars>>

\* the question goes to the conversational answer or to the search
QueryRoute ==
    /\ entry = "query"
    /\ pc = "start"
    /\ locals' = QueryLocals
    /\ IF IsConversational(input.question)
       THEN pc' = "answer_conversational"
       ELSE IF /\ Len(str_strip(input.question)) < MIN_QUESTION_LENGTH
               /\ ~IsLegalQuestion(input.question)
       THEN pc' = "answer_conversational"
       ELSE pc' = "search"
    /\ UNCHANGED <<entry, input, raised, returned, loaderVars>>

\* vector_store.search and the filter: an error of the embeddings or of the
\* store leaves query; without relevant documents a legal question gets the
\* fixed answer and any other the conversational one
QuerySearch ==
    /\ entry = "query"
    /\ pc = "search"
    /\ IF input.embed # "ok"
       THEN /\ locals' = [locals EXCEPT !.embed_requests = @ + 1]
            /\ raised' = Exception(input.embed, "embeddings")
            /\ pc' = "done"
            /\ returned' = returned
       ELSE IF input.store # "ok"
       THEN /\ locals' = [locals EXCEPT !.embed_requests = @ + 1,
                                        !.store_requests = @ + 1]
            /\ raised' = Exception(input.store, "vector_store")
            /\ pc' = "done"
            /\ returned' = returned
       ELSE LET relevant_docs == FilterRelevantSources(input.docs)
                searched == [locals EXCEPT !.embed_requests = @ + 1,
                                           !.store_requests = @ + 1,
                                           !.relevant_docs = relevant_docs]
            IN  IF relevant_docs # <<>>
                THEN /\ locals' = searched
                     /\ pc' = "generate"
                     /\ UNCHANGED <<raised, returned>>
                ELSE IF IsLegalQuestion(input.question)
                THEN /\ locals' = [searched EXCEPT !.response =
                                     RAGResponse("no_information", <<>>, TRUE)]
                     /\ returned' = "RAGResponse"
                     /\ pc' = "done"
                     /\ raised' = raised
                ELSE /\ locals' = searched
                     /\ pc' = "answer_conversational"
                     /\ UNCHANGED <<raised, returned>>
    /\ UNCHANGED <<entry, input, loaderVars>>

\* _answer_conversational: complete is called and its result awaited; a
\* YandexGPTError becomes the apology, the await of a result that is no
\* awaitable raises TypeError
AnswerConversational ==
    /\ entry = "query"
    /\ pc = "answer_conversational"
    /\ LET called == [locals EXCEPT !.completion_calls = @ + 1] IN
       IF input.completion = "YandexGPTError"
       THEN /\ locals' = [called EXCEPT !.response =
                            RAGResponse("apology", <<>>, FALSE)]
            /\ returned' = "RAGResponse"
            /\ raised' = raised
       ELSE IF CompleteIsCoroutine
       THEN /\ locals' = [called EXCEPT !.response =
                            RAGResponse("completion", <<>>, FALSE)]
            /\ returned' = "RAGResponse"
            /\ raised' = raised
       ELSE /\ locals' = called
            /\ raised' = Exception("TypeError", "await")
            /\ returned' = returned
    /\ pc' = "done"
    /\ UNCHANGED <<entry, input, loaderVars>>

\* the answer with the context of the relevant documents
QueryGenerate ==
    /\ entry = "query"
    /\ pc = "generate"
    /\ LET called == [locals EXCEPT !.completion_calls = @ + 1]
           sources == ExtractSourcesOf(locals.relevant_docs)
       IN  IF input.completion = "YandexGPTError"
           THEN /\ locals' = [called EXCEPT !.response =
                                RAGResponse("generation_error", sources, TRUE)]
                /\ returned' = "RAGResponse"
                /\ raised' = raised
           ELSE IF CompleteIsCoroutine
           THEN /\ locals' = [called EXCEPT !.response =
                                RAGResponse("completion",
                                            IF SaysNoInformation(input.text)
                                            THEN <<>> ELSE sources,
                                            TRUE)]
                /\ returned' = "RAGResponse"
                /\ raised' = raised
           ELSE /\ locals' = called
                /\ raised' = Exception("TypeError", "await")
                /\ returned' = returned
    /\ pc' = "done"
    /\ UNCHANGED <<entry, input, loaderVars>>

InitAgent ==
    /\ \/ entry = "_extract_sources" /\ input \in ExtractCalls
       \/ entry = "_is_conversational" /\ input \in Questions
       \/ entry = "query" /\ input \in QueryCalls
       \/ entry = "_filter_relevant_sources" /\ input \in FilterCalls
    /\ pc = "start"
    /\ raised = NoException
    /\ returned = "nothing"
    /\ locals = NoLocals
    /\ LoaderIdle

NextAgent ==
    \/ ExtractSources
    \/ Classify
    \/ QueryRoute
    \/ QuerySearch
    \/ AnswerConversational
    \/ QueryGenerate
    \/ FilterSources

SpecAgent == InitAgent /\ [][NextAgent]_vars

\* _extract_sources has returned
SourcesExtracted == entry = "_extract_sources" /\ Done

\* the (filename, page, archive) of a source reference
ReferenceKey(info) ==
    <<info.filename, info.page,
      IF "archive" \in DOMAIN info THEN Some(info.archive) ELSE None>>

\* the place of the first document that is shown with the key
FirstSeen(docs, key) ==
    SetMin({d \in 1..Len(docs) : ReferenceKey(SourceInfo(docs[d])) = key})

\* C15: the list _extract_sources returns has no two entries with the same
\* (filename, page, archive), refers to every document, and keeps the order
\* in which the references are first seen in the input; each entry is the
\* one of the first document with its key.
C15_SourcesUniqueInOrder ==
    SourcesExtracted =>
        LET sources == locals.sources
            keys == [i \in 1..Len(sources) |-> ReferenceKey(sources[i])]
        IN  /\ \A i, j \in 1..Len(sources) : i # j => keys[i] # keys[j]
            /\ \A d \in 1..Len(input) : \E i \in 1..Len(sources) :
                  keys[i] = ReferenceKey(SourceInfo(input[d]))
            /\ \A i \in 1..Len(sources) : \E d \in 1..Len(input) :
                  /\ keys[i] = ReferenceKey(SourceInfo(input[d]))
                  /\ sources[i] = SourceInfo(input[FirstSeen(input, keys[i])])
            /\ \A i, j \in 1..Len(sources) :
                  i < j => FirstSeen(input, keys[i]) < FirstSeen(input, keys[j])

\* three documents, the first and the third with one key and different
\* scores: two references are returned, the first with the first score
C15_Witness ==
    /\ SourcesExtracted
    /\ Len(input) = 3
    /\ ExtractKey(input[1]) = ExtractKey(input[3])
    /\ input[1].score # input[3].score
    /\ ExtractKey(input[1]) # ExtractKey(input[2])
    /\ Len(locals.sources) = 2
    /\ locals.sources[1].score = input[1].score

\* _is_conversational has returned
Classified == entry = "_is_conversational" /\ Done

\* C16: _is_conversational returns True for the greeting and for the thanks,
\* and False for every question that contains a keyword of the legal
\* keyword table, whatever its length and its beginning.
C16_KeywordQuestionsAreDomain ==
    Classified =>
        /\ input \in {RU(<<"p", "r", "i", "v", "e", "t">>),
                      RU(<<"s", "p", "a", "s", "i", "b", "o">>)}
              => locals.result = TRUE
        /\ IsLegalQuestion(input) => locals.result = FALSE

\* a query for a question that is classified conversational
ConversationalQuery ==
    /\ entry = "query"
    /\ locals # NoLocals
    /\ IsConversational(input.question)

\* C17: for a question classified conversational, query never asks the
\* embeddings or the store, answers through one completion call, and returns
\* a response with no sources and used_rag False.
C17_ConversationalSkipsRetrieval ==
    ConversationalQuery =>
        /\ locals.embed_requests = 0
        /\ locals.store_requests = 0
        /\ Done => /\ locals.completion_calls = 1
                   /\ returned = "RAGResponse"
                   /\ locals.response.sources = <<>>
                   /\ locals.response.used_rag = FALSE

\* a provider that query asked has failed
ProviderFailed ==
    /\ entry = "query"
    /\ locals # NoLocals
    /\ \/ locals.embed_requests > 0 /\ input.embed # "ok"
       \/ locals.store_requests > 0 /\ input.store # "ok"
       \/ locals.completion_calls > 0 /\ input.completion = "YandexGPTError"

\* C19: when the embeddings, the store or the completion provider fails
\* during a query, the error leaves query: no response is returned.
C19_ProviderErrorsPropagate ==
    (ProviderFailed /\ Done) =>
        /\ raised.type \in {"RuntimeError", "UnexpectedResponse",
                            "YandexGPTError"}
        /\ returned # "RAGResponse"

\* ---------------------------------------------------------------------------
\* The providers: YandexEmbeddings._embed_async and YandexGPTClient.complete

\* range(3) of _embed_async
EMBED_ATTEMPTS == 3

MaxRetries == 3

\* what one HTTP request can end with: a response with a status, or an
\* httpx.RequestError (no response)
StatusCodes == {200, 429, 401, 403, 500}

HttpOutcomes ==
    {[kind |-> "status", code |-> c] : c \in StatusCodes}
        \cup {[kind |-> "RequestError", code |-> 0]}

\* the calls: one text to embed, or one completion under a configured
\* max_retries
ProviderCalls ==
    {[provider |-> "embeddings", max_retries |-> EMBED_ATTEMPTS]}
        \cup {[provider |-> "completion", max_retries |-> n] :
                 n \in 0..MaxRetries}

\* the number of rounds of the loop
AttemptLimit(call) ==
    IF call.provider = "embeddings" THEN EMBED_ATTEMPTS ELSE call.max_retries

\* the error type of the provider
ProviderError(call) ==
    IF call.provider = "embeddings" THEN "RuntimeError" ELSE "YandexGPTError"

\* a loop that tries again after every error status
RetriedStatus_Every(code) == code # 200

\* e.response.status_code == 429
RetriedStatus(code) == code = 429

NoError == [type |-> "none", kind |-> "none", code |-> 0]

\* the call begins: attempt 0
ProviderBegin ==
    /\ entry = "provider"
    /\ pc = "start"
    /\ locals' = [op |-> "provider", attempt |-> 0, log |-> <<>>,
                  error |-> NoError]
    /\ pc' = "loop"
    /\ UNCHANGED <<entry, input, raised, returned, loaderVars>>

\* one round of the loop: a request, and what the handlers do with its
\* outcome; log keeps the outcome and the seconds slept after it
ProviderRequest ==
    /\ entry = "provider"
    /\ pc = "loop"
    /\ locals.attempt < AttemptLimit(input)
    /\ \E outcome \in HttpOutcomes :
          LET attempt == locals.attempt
              Logged(wait) == Append(locals.log,
                                     [outcome |-> outcome,
                                      attempt |-> attempt, wait |-> wait])
              Fail(kind, code) ==
                  /\ locals' = [locals EXCEPT
                                  !.log = Logged(0),
                                  !.error = [type |-> ProviderError(input),
                                             kind |-> kind, code |-> code]]
                  /\ raised' = Exception(ProviderError(input), kind)
                  /\ pc' = "done"
                  /\ returned' = returned
              Continue(wait) ==
                  /\ locals' = [locals EXCEPT !.log = Logged(wait),
                                              !.attempt = attempt + 1]
                  /\ UNCHANGED <<pc, raised, returned>>
          IN  IF outcome.kind = "RequestError"
              THEN IF attempt < AttemptLimit(input) - 1
                   THEN Continue(1)
                   ELSE Fail("connection", 0)
              ELSE IF outcome.code = 200
              THEN /\ locals' = [locals EXCEPT !.log = Logged(0)]
                   /\ returned' = "response"
                   /\ pc' = "done"
                   /\ raised' = raised
              ELSE IF RetriedStatus(outcome.code)
              THEN Continue(2 ^ attempt)
              ELSE Fail("http_status", outcome.code)
    /\ UNCHANGED <<entry, input, loaderVars>>

\* the loop is over without a response: the final raise
ProviderGiveUp ==
    /\ entry = "provider"
    /\ pc = "loop"
    /\ locals.attempt >= AttemptLimit(input)
    /\ locals' = [locals EXCEPT !.error = [type |-> ProviderError(input),
                                           kind |-> "attempts_exceeded",
                                           code |-> 0]]
    /\ raised' = Exception(ProviderError(input), "attempts_exceeded")
    /\ pc' = "done"
    /\ UNCHANGED <<entry, input, returned, loaderVars>>

InitProvider ==
    /\ entry = "provider"
    /\ input \in ProviderCalls
    /\ pc = "start"
    /\ raised = NoException
    /\ returned = "nothing"
    /\ locals = NoLocals
    /\ LoaderIdle

NextProvider ==
    \/ ProviderBegin
    \/ ProviderRequest
    \/ ProviderGiveUp

\* a call that has begun goes on: every request and every sleep ends
SpecProvider ==
    InitProvider /\ [][NextProvider]_vars /\ WF_vars(NextProvider)

\* a provider call is running or over
ProviderCalled == entry = "provider" /\ locals # NoLocals

IsRateLimited(logged) ==
    logged.outcome.kind = "status" /\ logged.outcome.code = 429

IsErrorStatus(logged) ==
    logged.outcome.kind = "status" /\ logged.outcome.code \notin {200, 429}

\* the requests of one call are bounded, a 429 is followed by a sleep of
\* 2^attempt seconds and, while attempts are left, by another request, any
\* other error status is the last request and is raised with its code, and
\* a call whose every attempt was rate-limited has raised the provider error
ProviderCallBounded ==
    ProviderCalled =>
        LET log == locals.log IN
        /\ Len(log) <= AttemptLimit(input)
        /\ \A i \in 1..Len(log) :
              /\ log[i].attempt = i - 1
              /\ IsRateLimited(log[i]) =>
                    /\ log[i].wait = 2 ^ (i - 1)
                    /\ i < AttemptLimit(input) => (Len(log) > i \/ pc = "loop")
              /\ IsErrorStatus(log[i]) =>
                    /\ i = Len(log)
                    /\ Done
                    /\ raised.type = ProviderError(input)
                    /\ locals.error.code = log[i].outcome.code
        /\ (Done /\ \A i \in 1..Len(log) : IsRateLimited(log[i])) =>
              /\ Len(log) = AttemptLimit(input)
              /\ raised.type = ProviderError(input)
              /\ returned = "nothing"

\* C18: one call to the embedding or completion provider issues at most 3
\* (embeddings) or max_retries (completion) requests; a 429 is retried
\* after 2^attempt seconds, any other error status ends the call at once
\* with an error carrying the status; a call that is always rate-limited
\* ends with a provider error; every call ends.
C18_BoundedRetries == []ProviderCallBounded /\ <>Done

\* a completion call with three attempts, all rate-limited, slept 1, 2 and
\* 4 seconds and raised
C18_Witness ==
    /\ ProviderCalled
    /\ Done
    /\ input.provider = "completion"
    /\ Len(locals.log) = 3
    /\ \A i \in 1..3 : IsRateLimited(locals.log[i])
    /\ locals.log[3].wait = 4
    /\ raised.type = "YandexGPTError"

\* the first check, in the order archive size, member count, decompression
\* ratio, path safety, member type, that the archive violates
EarliestViolated(arch) ==
    IF arch.size > MAX_ARCHIVE_SIZE THEN "size"
    ELSE IF Len(arch.members) + arch.extraDirs > MAX_FILES_IN_ARCHIVE
    THEN "count"
    ELSE IF arch.size > 0
            /\ RatioExceeds(SumSizes(arch.members), arch.size,
                            MAX_EXTRACTION_RATIO)
    THEN "ratio"
    ELSE IF \E i \in 1..Len(arch.members) :
               validate_path_safety(arch.members[i].path) # "ok"
    THEN "path"
    ELSE IF \E i \in 1..Len(arch.members) :
               issym(arch.members[i]) \/ islnk(arch.members[i])
                   \/ isdev(arch.members[i])
    THEN "type"
    ELSE "none"

\* the check an ArchiveError belongs to
CheckOf(kind) ==
    CASE kind = "too_large" -> "size"
      [] kind = "too_many_files" -> "count"
      [] kind = "zip_bomb" -> "ratio"
      [] kind \in {"unsafe_path", "windows_abs_path"} -> "path"
      [] kind \in {"links_forbidden", "device_forbidden"} -> "type"
      [] OTHER -> "none"

\* C20: for a readable zip or tar archive that violates several checks,
\* extract reports the rejection of the earliest violated check in the
\* order size, count, ratio, path, type, whatever the order of the members.
C20_EarliestCheckReported ==
    (/\ lastExtract.finished
     /\ lastExtract.arch.state = "ok"
     /\ get_archive_type(lastExtract.arch.name) # "none"
     /\ EarliestViolated(lastExtract.arch) # "none")
    => /\ lastExtract.outcome.type = "ArchiveError"
       /\ CheckOf(lastExtract.outcome.kind)
              = EarliestViolated(lastExtract.arch)

\* a job of the loader is running: archives are processed by
\* _process_archive_recursive
ArchiveJob == entry \in {"load_archive", "load_directory", "processFile"}

\* the workspace an active call holds, NoDir when it holds none
HeldWorkspace(frame) ==
    IF frame.temp_dir # NoDir THEN frame.temp_dir ELSE frame.xdir

\* C21: while an archive is processed, the live workspaces are those of the
\* active calls, which form one chain of depths 0, 1, 2, ...: one workspace
\* per level at most, never more than the depth limit, and none left behind
\* by a nested archive whose processing is over.
C21_WorkspacesFormOneChain ==
    ArchiveJob =>
        /\ \A i \in 1..Len(stack) : stack[i].depth = i - 1
        /\ workspaces \subseteq
               {HeldWorkspace(stack[i]) : i \in 1..Len(stack)} \ {NoDir}
        /\ \A i, j \in 1..Len(stack) :
              (i # j /\ HeldWorkspace(stack[i]) # NoDir)
                  => HeldWorkspace(stack[i]) # HeldWorkspace(stack[j])
        /\ Cardinality(workspaces) <= maxDepth
        /\ maxDepth <= MAX_NESTED_DEPTH

\* a nested archive was extracted and processed, and the parent is back in
\* its loop over the files with its own workspace only
C21_Witness ==
    /\ ArchiveJob
    /\ mkdtemps >= 2
    /\ Len(stack) = 1
    /\ Top.pc = "loop"
    /\ stats.nested_archives >= 1
    /\ workspaces = {Top.temp_dir}
\* ------------------------------------------------------------------------
\* The batch loop of _process_archive
\* ------------------------------------------------------------------------
\* the upload is an archive and load_archive has returned its documents
ArchiveIndexing ==
    /\ entry = "processFile"
    /\ get_file_type(UploadName) = "archive"
    /\ pc \in {"indexing", "writing", "finally", "done"}
    /\ ingest.loader_calls = 1
    /\ stack = <<>>

\* the batch loop ran to its end: no add_documents call failed
BatchLoopOver ==
    /\ ArchiveIndexing
    /\ \/ pc = "indexing" /\ ingest.i >= ingest.chunks
       \/ /\ pc \in {"finally", "done"}
          /\ ingest.pending.type # "ProviderError"
          /\ ingest.pending.type # "ValueError"

\* ceil(n / BATCH_SIZE)
BatchesOf(n) == (n + BATCH_SIZE - 1) \div BATCH_SIZE

\* C22: the n chunks of an archive job go to the vector store in consecutive
\* batches of at most 50 in their order, each chunk in one batch: the k-th
\* add_documents call takes the positions 50(k-1) .. min(50k, n) - 1, there
\* are ceil(n/50) calls when the loop ends and none for n = 0, and a call is
\* issued only when every earlier write has completed.
C22_ConsecutiveBatches ==
    ArchiveIndexing =>
        /\ \A k \in 1..Len(ingest.issued) :
              /\ ingest.issued[k].from = BATCH_SIZE * (k - 1)
              /\ ingest.issued[k].from < ingest.issued[k].to
              /\ ingest.issued[k].to - ingest.issued[k].from <= BATCH_SIZE
              /\ ingest.issued[k].to <= ingest.chunks
              /\ k < Len(ingest.issued)
                    => ingest.issued[k].to = ingest.issued[k + 1].from
        /\ Len(ingest.batches) <= Len(ingest.issued)
        /\ Len(ingest.issued) <= Len(ingest.batches) + 1
        /\ pc = "indexing" => ingest.issued = ingest.batches
        /\ ingest.batches = SubSeq(ingest.issued, 1, Len(ingest.batches))
        /\ BatchLoopOver =>
              /\ ingest.batches = ingest.issued
              /\ Len(ingest.batches) = BatchesOf(ingest.chunks)
              /\ ingest.chunks > 0 =>
                    ingest.batches[Len(ingest.batches)].to = ingest.chunks
              /\ ingest.chunks = 0 => ingest.batches = <<>>

\* three batches were written, the last one shorter than the others
C22_Witness ==
    /\ BatchLoopOver
    /\ ingest.chunks = 2 * BATCH_SIZE + 2
    /\ Len(ingest.batches) = 3
    /\ ingest.batches[3] = [from |-> 2 * BATCH_SIZE, to |-> 2 * BATCH_SIZE + 2]

\* ------------------------------------------------------------------------
\* query without relevant documents
\* ------------------------------------------------------------------------
\* the score of the document is missing or at least MIN_RELEVANCE_SCORE
ScoreMissingOrEnough(doc) ==
    "score" \notin DOMAIN doc \/ doc.score >= MIN_RELEVANCE_SCORE

\* kept is docs without the documents that fail the test, in the same order
KeptExactly(docs, kept) ==
    /\ \A j \in 1..Len(kept) : ScoreMissingOrEnough(kept[j])
    /\ \A i \in 1..Len(docs) :
          ScoreMissingOrEnough(docs[i])
              => Occurrences(kept, docs[i]) = Occurrences(docs, docs[i])
    /\ \A j \in 1..Len(kept) - 1 :
          \E a, b \in 1..Len(docs) :
              a < b /\ docs[a] = kept[j] /\ docs[b] = kept[j + 1]

\* query has searched and the search did not fail
QuerySearched ==
    /\ entry = "query"
    /\ locals # NoLocals
    /\ locals.store_requests = 1
    /\ input.store = "ok"

NothingFoundInContext ==
    /\ entry = "query"
    /\ Done
    /\ locals.relevant_docs # <<>>
    /\ locals.completion_calls = 1
    /\ input.completion = "response"
    /\ SaysNoInformation(input.text)

\* C24: when the answer of the completion provider contains one of the
\* no-information phrases, in whatever case, query returns a response with
\* that answer and an empty sources list although relevant documents were
\* retrieved.
C24_NothingFoundHasNoSources ==
    NothingFoundInContext =>
        /\ returned = "RAGResponse"
        /\ raised = NoException
        /\ locals.response.answer = "completion"
        /\ locals.response.sources = <<>>

\* ------------------------------------------------------------------------
\* Retrieval for every question that is not conversational
\* ------------------------------------------------------------------------
\* C29: for a question that _is_conversational does not take for
\* conversational, query asks the vector store before it asks the
\* completion provider: no completion call without a search before it.
C29_SearchBeforeCompletion ==
    (/\ entry = "query"
     /\ locals # NoLocals
     /\ ~IsConversational(input.question)
     /\ locals.completion_calls > 0)
        => locals.embed_requests > 0

\* ------------------------------------------------------------------------
\* The arguments of mmr_search
\* ------------------------------------------------------------------------
\* the value the call works with when only None selects the default
PassedOr(x, default) == IF x = NoArgument THEN default ELSE x

\* C30: mmr_search works with the k and the lambda_mult of the caller
\* whenever they are not None, lambda_mult = 0.0 included, and with the
\* configured search_k and mmr_lambda only for None.
C30_PassedArgumentsUsed ==
    (entry = "mmr_search" /\ "lambda_mult" \in DOMAIN locals) =>
        /\ locals.k = PassedOr(input.k, SEARCH_K)
        /\ locals.lambda_mult = PassedOr(input.lambda_mult, MMR_LAMBDA)

\* ------------------------------------------------------------------------
\* Where processFile writes the upload
\* ------------------------------------------------------------------------
\* the components of a path after "." and ".." are resolved
RECURSIVE ResolveFrom(_, _)
ResolveFrom(segs, acc) ==
    IF segs = <<>> THEN acc
    ELSE IF Head(segs) = <<".", ".">>
    THEN ResolveFrom(Tail(segs),
                     IF acc = <<>> THEN acc ELSE SubSeq(acc, 1, Len(acc) - 1))
    ELSE IF Head(segs) = <<".">> THEN ResolveFrom(Tail(segs), acc)
    ELSE ResolveFrom(Tail(segs), Append(acc, Head(segs)))

ResolvedParts(p) == ResolveFrom(Segments(p), <<>>)

\* the absolute path p names a place below the directory dir
InsideDirectory(dir, p) ==
    LET d == ResolvedParts(dir)
        r == ResolvedParts(p)
    IN  Len(r) > Len(d) /\ SubSeq(r, 1, Len(d)) = d

\* C27: for every upload name that passes the extension check, names with
\* path separators or ".." segments included, the file processFile writes
\* and later removes is a file inside the upload directory it has just
\* created.
C27_UploadStaysInUploadDir ==
    (entry = "processFile" /\ ingest.file \in {"exists", "removed"})
        => InsideDirectory(UploadDir, ingest.temp_path)

\* ------------------------------------------------------------------------
\* What the enumeration of a directory depends on
\* ------------------------------------------------------------------------
\* the file has a junk name or lies below a junk directory of the
\* enumerated directory
JunkBelowRoot(m) == should_skip_file(Segments(m.path))

\* C28: whether iter_files enumerates a file depends only on the name of the
\* file and on the directory names below the enumerated directory: the
\* files it yields are the files without a junk component below the root,
\* whatever the components of the root itself are.
C28_RootDoesNotMatter ==
    (entry = "iter_files" /\ Done) =>
        locals.files = SelectSeq(input.files, LAMBDA m : ~JunkBelowRoot(m))

\* ------------------------------------------------------------------------
\* QdrantVectorStore: the lazy client and the collection
\* ------------------------------------------------------------------------
\* coroutines that use one store at the same time
MaxTasks == 2

\* calls one coroutine makes one after the other
MaxCalls == 3

StoreCalls == {"add", "search", "clear", "close"}

\* the uses of one new QdrantVectorStore: several coroutines that each make
\* a first add_documents or search call, or one coroutine that makes a
\* sequence of calls; exists tells whether the server has the collection
StoreUses(max_tasks, max_calls) ==
    { [tasks |-> t, exists |-> e] :
        t \in UNION {[1..n -> {<<"add">>, <<"search">>}] : n \in 2..max_tasks}
              \cup { <<calls>> :
                       calls \in UNION {[1..n -> StoreCalls] :
                                           n \in 1..max_calls} },
        e \in BOOLEAN }

\* the store after __init__ and the coroutines before their first step:
\* client and initialized are the fields _client and _initialized, exists
\* is the collection on the server; creates, served and failures record the
\* create_collection requests, the upsert and query requests that found the
\* collection, and the exceptions the calls raised
StoreLocals ==
    [op |-> "store", client |-> FALSE, initialized |-> FALSE,
     exists |-> input.exists, creates |-> 0, served |-> 0, failures |-> {},
     tasks |-> [t \in 1..Len(input.tasks) |->
                  [calls |-> input.tasks[t], pc |-> "call"]]]

\* the call of the coroutine is over: it goes on with its next call
NextCall(task) == [calls |-> Tail(task.calls), pc |-> "call"]

\* the call of the coroutine ends with an exception
Failed(store, t, kind) ==
    [store EXCEPT
        !.failures = @ \cup {[task |-> t, call |-> Head(store.tasks[t].calls),
                              kind |-> kind]},
        !.tasks[t] = NextCall(@)]

\* where a call goes on when _get_client has returned
AfterClient(call) == IF call = "clear" THEN "delete" ELSE "request"

AllCallsOver(store) ==
    \A t \in DOMAIN store.tasks : store.tasks[t].calls = <<>>

\* the step of a coroutine leaves the store as after; the use is over when
\* no coroutine has a call left
StoreStep(after) ==
    /\ locals' = after
    /\ pc' = IF AllCallsOver(after) THEN "done" ELSE "run"
    /\ returned' = IF AllCallsOver(after) THEN "over" ELSE returned
    /\ UNCHANGED <<entry, input, raised, loaderVars>>

StoreBegin ==
    /\ entry = "store"
    /\ pc = "start"
    /\ locals' = StoreLocals
    /\ pc' = "run"
    /\ UNCHANGED <<entry, input, raised, returned, loaderVars>>

\* if not self._initialized
NeedsEnsure(store) == ~store.initialized

\* _get_client up to its first await: the client is made when there is
\* none; without the initialized flag get_collections is requested
StoreGetClient ==
    /\ entry = "store"
    /\ pc = "run"
    /\ \E t \in 1..Len(input.tasks) :
       /\ locals.tasks[t].pc = "call"
       /\ locals.tasks[t].calls # <<>>
       /\ Head(locals.tasks[t].calls) # "close"
       /\ StoreStep([locals EXCEPT
              !.client = TRUE,
              !.tasks[t].pc = IF NeedsEnsure(locals) THEN "list"
                              ELSE AfterClient(Head(locals.tasks[t].calls))])

\* _ensure_collection: the answer of get_collections.  With the collection
\* in the list _ensure_collection returns, and _get_client sets the flag
\* (clear_collection does not); without it create_collection is requested
EnsureList ==
    /\ entry = "store"
    /\ pc = "run"
    /\ \E t \in 1..Len(input.tasks) :
       /\ locals.tasks[t].pc \in {"list", "relist"}
       /\ LET task == locals.tasks[t] IN
          IF ~locals.exists
          THEN StoreStep([locals EXCEPT
                  !.creates = @ + 1,
                  !.tasks[t].pc = IF task.pc = "list"
                                  THEN "create" ELSE "recreate"])
          ELSE IF task.pc = "list"
          THEN StoreStep([locals EXCEPT
                  !.initialized = TRUE,
                  !.tasks[t].pc = AfterClient(Head(task.calls))])
          ELSE StoreStep([locals EXCEPT !.tasks[t] = NextCall(@)])

\* _ensure_collection: the answer of create_collection.  The server refuses
\* to create a collection it already has.
EnsureCreate ==
    /\ entry = "store"
    /\ pc = "run"
    /\ \E t \in 1..Len(input.tasks) :
       /\ locals.tasks[t].pc \in {"create", "recreate"}
       /\ LET task == locals.tasks[t] IN
          IF locals.exists
          THEN StoreStep(Failed(locals, t, "already_exists"))
          ELSE IF task.pc = "create"
          THEN StoreStep([locals EXCEPT
                  !.exists = TRUE,
                  !.initialized = TRUE,
                  !.tasks[t].pc = AfterClient(Head(task.calls))])
          ELSE StoreStep([locals EXCEPT
                  !.exists = TRUE,
                  !.tasks[t] = NextCall(@)])

\* add_documents and search: the upsert or the query of the collection
StoreRequest ==
    /\ entry = "store"
    /\ pc = "run"
    /\ \E t \in 1..Len(input.tasks) :
       /\ locals.tasks[t].pc = "request"
       /\ IF locals.exists
          THEN StoreStep([locals EXCEPT !.served = @ + 1,
                                        !.tasks[t] = NextCall(@)])
          ELSE StoreStep(Failed(locals, t, "not_found"))

\* clear_collection: delete_collection is answered, the flag is reset and
\* _ensure_collection asks for the collections
ClearDelete ==
    /\ entry = "store"
    /\ pc = "run"
    /\ \E t \in 1..Len(input.tasks) :
       /\ locals.tasks[t].pc = "delete"
       /\ StoreStep([locals EXCEPT !.exists = FALSE,
                                   !.initialized = FALSE,
                                   !.tasks[t].pc = "relist"])

\* close: the client is closed and forgotten; the flag stays as it is
StoreClose ==
    /\ entry = "store"
    /\ pc = "run"
    /\ \E t \in 1..Len(input.tasks) :
       /\ locals.tasks[t].pc = "call"
       /\ locals.tasks[t].calls # <<>>
       /\ Head(locals.tasks[t].calls) = "close"
       /\ StoreStep([locals EXCEPT !.client = FALSE,
                                   !.tasks[t] = NextCall(@)])

InitStore ==
    /\ entry = "store"
    /\ input \in StoreUses(MaxTasks, MaxCalls)
    /\ pc = "start"
    /\ raised = NoException
    /\ returned = "nothing"
    /\ locals = NoLocals
    /\ LoaderIdle

NextStore ==
    \/ StoreBegin
    \/ StoreGetClient
    \/ EnsureList
    \/ EnsureCreate
    \/ StoreRequest
    \/ ClearDelete
    \/ StoreClose

SpecStore == InitStore /\ [][NextStore]_vars

\* the store is in use
StoreRunning == entry = "store" /\ locals # NoLocals

\* several coroutines make their first call at the same time
ConcurrentFirstUse == Len(input.tasks) >= 2

\* C26: when several operations make first use of one store at the same
\* time and the collection is absent, create_collection is requested at most
\* once and no operation fails; and in a sequence of add, search,
\* clear_collection and close calls every request finds the collection.
C26_CollectionInitializedOnce ==
    StoreRunning =>
        /\ (ConcurrentFirstUse /\ ~input.exists)
              => /\ locals.creates <= 1
                 /\ locals.failures = {}
        /\ ~ConcurrentFirstUse
              => \A f \in locals.failures : f.kind # "not_found"

\* ------------------------------------------------------------------------
\* Cancellation of processFile during load_archive
\* ------------------------------------------------------------------------
\* the archive uploads of a service with an agent
ArchiveUploads ==
    { Upload(N_t_zip, 1, Reg(N_t_zip, 1),
             Archive(N_t_zip, 1, members, 0, "ok"), TRUE) :
        members \in SubLists(UploadMembers \o <<Reg(N_x_bin, 1)>>,
                             MaxUploadMembers) }

\* the task that runs processFile is cancelled while it awaits
\* run_in_executor: CancelledError is raised at the await and passes the
\* except Exception clause, the finally clause of processFile removes the
\* upload and its directory, and the thread of the executor goes on with
\* load_archive
ProcessFileCancel ==
    /\ entry = "processFile"
    /\ pc = "loading"
    /\ ingest' = [ingest EXCEPT
                    !.file = IF @ = "exists" THEN "removed" ELSE @,
                    !.temp_dir = IF @ = "exists" THEN "removed" ELSE @,
                    !.pending = Exception("CancelledError", "cancelled")]
    /\ raised' = Exception("CancelledError", "cancelled")
    /\ pc' = "cancelled"
    /\ UNCHANGED <<locals, entry, maxDepth, input, stack, workspaces, mkdtemps, stats,
                   documents, queue, returned, lastExtract, enumerated>>

InitCancel ==
    /\ entry = "processFile"
    /\ maxDepth \in 1..MAX_NESTED_DEPTH
    /\ input \in ArchiveUploads
    /\ pc = "start"
    /\ stack = <<>>
    /\ workspaces = {}
    /\ mkdtemps = 0
    /\ stats = ArchiveProcessingStats
    /\ documents = <<>>
    /\ queue = [regular_files |-> <<>>, archive_files |-> <<>>]
    /\ raised = NoException
    /\ returned = "nothing"
    /\ ingest = NoIngest
    /\ lastExtract = NoExtract
    /\ enumerated = NoEnumerated
    /\ locals = NoLocals

NextCancel ==
    \/ ProcessFileStart
    \/ SaveChunk
    \/ SaveDone
    \/ ProcessArchiveLoad
    \/ EnterArchive
    \/ ExtractBegin
    \/ ExtractRun
    \/ ProcessNestedArchive
    \/ SkipUnsupportedFile
    \/ LoadArchiveFile
    \/ FilesExhausted
    \/ FinallyCleanup
    \/ ProcessFileCancel
    \/ ProcessArchiveSplit
    \/ ProcessArchiveBatch
    \/ ProcessArchiveWritten
    \/ ProcessArchiveResult
    \/ ProcessFileFinally

SpecCancel == InitCancel /\ [][NextCancel]_vars

\* the cancellation of processFile is complete
Cancelled == entry = "processFile" /\ pc = "cancelled"

\* the thread of the executor is inside extract for the uploaded archive,
\* between mkdtemp and the end of extractall
WorkerReadsUpload == stack # <<>> /\ stack[1].pc = "unpack"

\* C25: when processFile is cancelled while the archive is extracted and
\* loaded in the executor, no extraction workspace of the job exists once
\* the cancellation is complete, and the uploaded archive is not removed
\* while the executor still reads it.
C25_CancelLeavesNothingBehind ==
    Cancelled =>
        /\ workspaces = {}
        /\ ~(ingest.file = "removed" /\ WorkerReadsUpload)

====
